---- MODULE Spec2Model ----
(***************************************************************************)
(* Smart-Waste-Delhi frontend: the CSV location parser, the chart and      *)
(* page fetchers, and the polling DataProvider, as state machines.         *)
(*                                                                         *)
(* Text is a sequence of tokens.  The delimiters "\n", "," and the quote   *)
(* are one token each; every other token is a run of characters holding    *)
(* no delimiter, so splitting a token sequence on a delimiter token is     *)
(* splitting the string on that character.                                 *)
(***************************************************************************)
EXTENDS Integers, Sequences, FiniteSets, TLC

(***************************************************************************)
(* Bounds                                                                  *)
(***************************************************************************)
MaxRows == 2

MaxSeries == 2

\* timer ticks of the DataProvider interval that are followed
MaxTicks == 1

\* calls consumers make to the fetch functions of the context
MaxContextCalls == 1

\* the backend's current AQI is one of 0..MaxAqi
MaxAqi == 2

\* stations in a real-time-map body
MaxStations == 2

\* submits of a prediction form that are followed
MaxSubmits == 2

\* mounts of DelhiLeafletMap in one visit of the application, each parsing the file once
MaxParses == 2

\* bins in one body of the real-time map, alerts in one body of the alerts summary
MaxBins == 1

\* stations in one body of the real-time map whose readings lie at a band's edge
MaxBandStations == 3

\* characters in the draft of a chat message
MaxDraft == 2

\* chat messages sent in one visit of the AIInsights page
MaxSends == 2

(***************************************************************************)
(* parseWasteBinsCSV.ts : string primitives                                *)
(***************************************************************************)
NL == "\n"
COMMA == ","
QUOTE == "\""

\* values[i] of a JS array, 0-based; out of range (also -1) is undefined
Undefined == [def |-> FALSE]

Defined(v) == [def |-> TRUE, v |-> v]

ArrayGet(arr, i) == IF i >= 0 /\ i < Len(arr) THEN Defined(arr[i + 1]) ELSE Undefined

\* String.prototype.split(sep) for a one-character separator: always at
\* least one piece, empty pieces kept
RECURSIVE SplitFrom(_, _, _, _)
SplitFrom(s, sep, i, cur) ==
  IF i > Len(s) THEN <<cur>>
  ELSE IF s[i] = sep THEN <<cur>> \o SplitFrom(s, sep, i + 1, <<>>)
  ELSE SplitFrom(s, sep, i + 1, Append(cur, s[i]))

split(s, sep) == SplitFrom(s, sep, 1, <<>>)

\* Array.prototype.indexOf: first 0-based position of x, or -1
indexOf(arr, x) ==
  IF \E i \in 1..Len(arr) : arr[i] = x
  THEN (CHOOSE i \in 1..Len(arr) : arr[i] = x /\ \A j \in 1..(i - 1) : arr[j] # x) - 1
  ELSE -1

\* s.replace(/"/g, '')
RECURSIVE stripQuotes(_)
stripQuotes(s) ==
  IF s = <<>> THEN <<>>
  ELSE IF Head(s) = QUOTE THEN stripQuotes(Tail(s))
  ELSE <<Head(s)>> \o stripQuotes(Tail(s))

\* numeric tokens and their values in hundredths
NumVal == [x \in {"28.61", "77.20"} |-> IF x = "28.61" THEN 2861 ELSE 7720]

NaN == [nan |-> TRUE]

Num(v) == [nan |-> FALSE, v |-> v]

\* parseFloat(x): undefined and "" give NaN; otherwise the numeric prefix of
\* the string (the inputs never put two numeric tokens next to each other)
parseFloat(x) ==
  IF ~x.def THEN NaN
  ELSE IF x.v = <<>> THEN NaN
  ELSE IF Head(x.v) \in DOMAIN NumVal THEN Num(NumVal[Head(x.v)])
  ELSE NaN

isNaN(n) == n.nan

(***************************************************************************)
(* parseWasteBinsCSV.ts : parseWasteBinsCSV                                *)
(***************************************************************************)
NameKey == <<"Landfill Name">>

\* 'Landfill Location (Lat, Long)': the key holds a comma of its own
LocKey == <<"Landfill Location (Lat", COMMA, " Long)">>

Returned(bins) == [threw |-> FALSE, bins |-> bins]

\* TypeError: Cannot read properties of undefined (reading 'replace')
Threw == [threw |-> TRUE, bins |-> <<>>]

\* the body of the for loop from row i (1-based into lines, lines[1] is the header)
RECURSIVE parseRows(_, _, _, _, _)
parseRows(lines, i, nameIdx, locIdx, bins) ==
  IF i > Len(lines) THEN Returned(bins)
  ELSE
    LET values == split(lines[i], COMMA) IN
    IF Len(values) > locIdx
    THEN
      LET name == ArrayGet(values, nameIdx)
          cell == ArrayGet(values, locIdx)
      IN
      IF ~cell.def THEN Threw
      ELSE
        LET loc == split(stripQuotes(cell.v), COMMA)
            lat == parseFloat(ArrayGet(loc, 0))
            lng == parseFloat(ArrayGet(loc, 1))
        IN
        IF ~isNaN(lat) /\ ~isNaN(lng) /\ name.def
        THEN parseRows(lines, i + 1, nameIdx, locIdx,
                       Append(bins, [name |-> name.v, lat |-> lat.v, lng |-> lng.v]))
        ELSE parseRows(lines, i + 1, nameIdx, locIdx, bins)
    ELSE parseRows(lines, i + 1, nameIdx, locIdx, bins)

\* a data row of the shape  name,"lat,lng"  with both coordinates numeric
IsWellFormedRow(row) ==
  /\ Len(row) = 7
  /\ row[2] = COMMA /\ row[3] = QUOTE /\ row[5] = COMMA /\ row[7] = QUOTE
  /\ row[1] \notin {COMMA, QUOTE}
  /\ row[4] \in DOMAIN NumVal /\ row[6] \in DOMAIN NumVal

RECURSIVE ExpectedBins(_)
ExpectedBins(rows) ==
  IF rows = <<>> THEN <<>>
  ELSE (IF IsWellFormedRow(Head(rows))
        THEN <<[name |-> <<Head(rows)[1]>>, lat |-> NumVal[Head(rows)[4]],
                lng |-> NumVal[Head(rows)[6]]]>>
        ELSE <<>>) \o ExpectedBins(Tail(rows))

\* a parser that reads a quoted cell whole, its comma included
parseWasteBinsCSVQuoted(csv) ==
  Returned(ExpectedBins(Tail(split(csv, NL))))

parseWasteBinsCSV(csv) ==
  LET lines == split(csv, NL)
      header == split(lines[1], COMMA)
      nameIdx == indexOf(header, NameKey)
      locIdx == indexOf(header, LocKey)
  IN parseRows(lines, 2, nameIdx, locIdx, <<>>)

(***************************************************************************)
(* The CSV texts the map may be served                                     *)
(***************************************************************************)
ExpectedHeader == NameKey \o <<COMMA>> \o LocKey

Headers == {ExpectedHeader, <<"Id", COMMA>> \o ExpectedHeader}

WellFormedRow == <<"Site A", COMMA, QUOTE, "28.61", COMMA, "77.20", QUOTE>>

BadLatRow == <<"Site B", COMMA, QUOTE, "abc", COMMA, "77.20", QUOTE>>

BadLngRow == <<"Site B", COMMA, QUOTE, "28.61", COMMA, "abc", QUOTE>>

ShortRow == <<"Site C">>

EmptyRow == <<>>

RowTemplates == {WellFormedRow, BadLatRow, BadLngRow, ShortRow, EmptyRow}

RECURSIVE joinRows(_, _)
joinRows(h, rows) ==
  IF rows = <<>> THEN h ELSE joinRows(h \o <<NL>> \o Head(rows), Tail(rows))

CSVTexts ==
  {joinRows(h, rows) : h \in Headers,
                       rows \in UNION {[1..n -> RowTemplates] : n \in 0..MaxRows}}

ExampleCSV == joinRows(ExpectedHeader, <<WellFormedRow>>)

(***************************************************************************)
(* JavaScript values held in state and carried by response bodies          *)
(***************************************************************************)
\* a string | null state: the JS null
Null == "null"

JNull == [t |-> "null"]

JUndefined == [t |-> "undefined"]

JNum(n) == [t |-> "number", n |-> n]

JStr(s) == [t |-> "string", s |-> s]

JArr(l) == [t |-> "array", l |-> l]

\* o: a function from the keys the object has to their values
JObj(o) == [t |-> "object", o |-> o]

EmptyObj == JObj(<<>>)

\* a body that is not JSON: res.json() rejects with a SyntaxError
Malformed == [t |-> "malformed"]

\* no body read yet
NoBody == [t |-> "none"]

Value(v) == [threw |-> FALSE, v |-> v]

\* a TypeError thrown by the expression
TypeError == [threw |-> TRUE, v |-> JUndefined]

\* v.k : throws on null and undefined, undefined when v has no such property
Get(v, k) ==
  IF v.t \in {"null", "undefined"} THEN TypeError
  ELSE IF v.t = "object" /\ k \in DOMAIN v.o THEN Value(v.o[k])
  ELSE Value(JUndefined)

\* ToBoolean
Truthy(v) ==
  CASE v.t \in {"null", "undefined"} -> FALSE
    [] v.t = "number" -> v.n # 0
    [] v.t = "string" -> v.s # ""
    [] OTHER -> TRUE

\* json.<parent>.<key> || []
NestedOrEmpty(json, parent, key) ==
  LET p == Get(json, parent) IN
  IF p.threw THEN TypeError
  ELSE LET x == Get(p.v, key) IN
       IF x.threw THEN TypeError
       ELSE IF Truthy(x.v) THEN Value(x.v) ELSE Value(JArr(<<>>))

(***************************************************************************)
(* Response bodies of the backend endpoints                                *)
(***************************************************************************)
\* the readings of a series, by identity (no fetcher looks inside one)
Readings == {JNum(1), JNum(2)}

SeriesLists == {JArr(l) : l \in UNION {[1..n -> Readings] : n \in 0..MaxSeries}}

Absent == [t |-> "absent"]

\* what a body may hold under a series key: nothing, null, a string, a list
SeriesOpt == {Absent, JNull, JStr("n/a")} \cup SeriesLists

\* the object with keys k1, k2 where present
Obj2(k1, v1, k2, v2) ==
  JObj([k \in ({k1} \ (IF v1 = Absent THEN {k1} ELSE {})) \cup
              ({k2} \ (IF v2 = Absent THEN {k2} ELSE {}))
        |-> IF k = k1 THEN v1 ELSE v2])

Wrap(k, v) == JObj([x \in {k} |-> v])

\* an error body, as a non-2xx answer carries
ErrorBody == Wrap("detail", JStr("Internal Server Error"))

SeriesPairs == {p \in SeriesOpt \X SeriesOpt : p[1] = Absent \/ p[2] = Absent \/ p[1] = p[2]}

\* GET /api/dashboard/trends?days=7
TrendsBodies ==
  {Malformed, JNull, EmptyObj, ErrorBody, Wrap("trends", JNull)} \cup
  {Wrap("trends", Obj2("waste_collection", p[1], "air_quality", p[2])) : p \in SeriesPairs}

\* GET /api/dashboard/alerts-summary
AlertsBodies ==
  {Malformed, JNull, EmptyObj, ErrorBody, Wrap("alerts_summary", JNull)} \cup
  {Wrap("alerts_summary", Obj2("air_quality_alerts", p[1], "waste_collection_alerts", p[2])) :
     p \in SeriesPairs}

Endpoints == {"overview", "city_health", "trends", "alerts_summary"}

\* bodies of GET /api/dashboard/overview
OverviewObj(aqi) ==
  JObj([k \in {"current_aqi", "bins_needing_collection", "active_alerts", "total_waste_bins"} |->
          CASE k = "current_aqi" -> JNum(aqi)
            [] k = "bins_needing_collection" -> JNum(5)
            [] k = "active_alerts" -> JNum(1)
            [] OTHER -> JNum(100)])

\* the body each endpoint answers with when all is well
GoodBody(e, aqi) ==
  CASE e = "overview" -> Wrap("overview", OverviewObj(aqi))
    [] e = "city_health" -> Wrap("city_health", Wrap("overall_score", JNum(87)))
    [] e = "trends" ->
         Wrap("trends", Obj2("waste_collection", JArr(<<JNum(1)>>), "air_quality", JArr(<<JNum(2)>>)))
    [] OTHER ->
         Wrap("alerts_summary", Obj2("air_quality_alerts", JArr(<<>>), "waste_collection_alerts", JArr(<<>>)))

DegenerateBodies == {Malformed, JNull, EmptyObj, ErrorBody}

NoResponse == [ok |-> FALSE, body |-> NoBody]

\* no body read from any of the four dashboard endpoints
NoBodies == [e \in Endpoints |-> NoBody]

\* the message of the TypeError a rejected fetch() carries
NetworkErrorMessage == "Failed to fetch"

\* the message of the SyntaxError a rejected res.json() carries
SyntaxErrorMessage == "Unexpected token < in JSON at position 0"

\* the message of the TypeError of a property read on null
NullPropertyMessage == "Cannot read properties of null"

\* what a try block ends with: the value it built, or the message of what it threw
Ok(v) == [threw |-> FALSE, v |-> v, message |-> ""]

Err(m) == [threw |-> TRUE, v |-> JUndefined, message |-> m]

(***************************************************************************)
(* AIInsights.tsx and AirQuality.tsx : response bodies and rendering       *)
(***************************************************************************)
\* Number.NaN as a state value
JNaN == [t |-> "NaN"]

\* a recommendation card as the page draws it
Recommendation(type) ==
  JObj([k \in {"type", "title", "confidence"} |->
          IF k = "confidence" THEN JNum(1) ELSE JStr(type)])

\* what a body may hold under recommendations
RecommendationsOpt ==
  {Absent, JNull, JStr("n/a"), JArr(<<>>), JArr(<<Recommendation("urgent")>>), JArr(<<JNull>>)}

\* a predictions object: the three forecast lists empty, recommendations as given
PredictionsWith(recs) ==
  JObj([k \in {"aqi_forecast", "waste_forecast", "alerts"} \cup
              (IF recs = Absent THEN {} ELSE {"recommendations"})
        |-> IF k = "recommendations" THEN recs ELSE JArr(<<>>)])

\* lines 72-77: useState({aqi_forecast: [], waste_forecast: [], recommendations: [], alerts: []})
InitialPredictions == PredictionsWith(JArr(<<>>))

\* lines 103-142: the demo data of the catch block, its three recommendations
DemoPredictions ==
  PredictionsWith(JArr(<<Recommendation("urgent"), Recommendation("optimization"),
                         Recommendation("maintenance")>>))

GoodInsights == PredictionsWith(JArr(<<Recommendation("urgent")>>))

\* GET /api/ai-insights/predictions
InsightsBodies ==
  {Malformed, JNull, EmptyObj, ErrorBody} \cup {PredictionsWith(r) : r \in RecommendationsOpt}

\* lines 169-259: what rendering the page does with the state it is given;
\* predictions.recommendations.map(rec => ... rec.type ...)
AIInsightsRender(loading, predictions) ==
  IF loading THEN "spinner"
  ELSE LET r == Get(predictions, "recommendations") IN
       IF r.threw THEN "threw"
       ELSE IF r.v.t # "array" THEN "threw"
       ELSE IF \E i \in 1..Len(r.v.l) : Get(r.v.l[i], "type").threw THEN "threw"
       ELSE "page"

\* the characters a draft is typed from
SPACE == " "

Drafts == UNION {[1..n -> {SPACE, "a"}] : n \in 0..MaxDraft}

RECURSIVE trimStart(_)
trimStart(s) ==
  IF s = <<>> THEN <<>>
  ELSE IF Head(s) = SPACE THEN trimStart(Tail(s)) ELSE s

RECURSIVE trimEnd(_)
trimEnd(s) ==
  IF s = <<>> THEN <<>>
  ELSE IF s[Len(s)] = SPACE THEN trimEnd(SubSeq(s, 1, Len(s) - 1)) ELSE s

\* String.prototype.trim
trim(s) == trimEnd(trimStart(s))

\* lines 84-88: the three messages the chat starts with
InitialChat ==
  <<[type |-> "ai", message |-> <<"Hello!">>],
    [type |-> "user", message |-> <<"What are the key insights for today?">>],
    [type |-> "ai", message |-> <<"Today's key insights">>]>>

\* lines 156-161: the four canned responses
Responses == {<<"Based on current data patterns">>, <<"The predictive models show">>,
              <<"System efficiency is at 87%">>, <<"I've detected unusual patterns">>}

\* a station of the real-time map, with the fields the page reads
Station(id, aqi) ==
  JObj([k \in {"id", "name", "aqi", "latitude", "longitude"} |->
          CASE k = "id" -> JNum(id)
            [] k = "name" -> JStr("station")
            [] k = "aqi" -> JNum(aqi)
            [] k = "latitude" -> JNum(28)
            [] OTHER -> JNum(77)])

\* a station object that carries its reading only
BareStation == Wrap("aqi", JNum(40))

StationValues == {Station(1, 40), Station(2, 160), BareStation, JNull}

StationLists == {JArr(l) : l \in UNION {[1..n -> StationValues] : n \in 0..MaxStations}}

\* lines 86-91
DemoStations == JArr(<<Station(1, 168), Station(2, 145), Station(3, 189), Station(4, 156)>>)

GoodMap == Wrap("map_data", Wrap("air_quality_stations", JArr(<<Station(1, 40)>>)))

\* GET /api/dashboard/real-time-map
MapBodies ==
  {Malformed, JNull, EmptyObj, ErrorBody, Wrap("map_data", JNull), Wrap("map_data", EmptyObj)} \cup
  {Wrap("map_data", Wrap("air_quality_stations", s)) :
     s \in StationLists \cup {JNull, JStr("n/a"), EmptyObj}}

\* line 76: data.map_data?.air_quality_stations || []
StationsOf(data) ==
  LET m == Get(data, "map_data") IN
  IF m.threw THEN TypeError
  ELSE IF m.v.t \in {"null", "undefined"} THEN Value(JArr(<<>>))
  ELSE LET x == Get(m.v, "air_quality_stations").v IN
       IF Truthy(x) THEN Value(x) ELSE Value(JArr(<<>>))

\* stationsData.length > 0
HasLength(v) ==
  CASE v.t = "array" -> Len(v.l) > 0
    [] v.t = "string" -> v.s # ""
    [] OTHER -> FALSE

RECURSIVE SumAqi(_, _)
\* line 79: reduce((sum, station) => sum + station.aqi, 0); NaN once a reading is missing
SumAqi(l, i) ==
  IF i > Len(l) THEN JNum(0)
  ELSE LET rest == SumAqi(l, i + 1)
           a == Get(l[i], "aqi").v
       IN IF rest.t = "number" /\ a.t = "number" THEN JNum(a.n + rest.n) ELSE JNaN

\* Math.round(sum / n) for a sum that is not negative
RoundedAverage(sum, n) ==
  IF sum.t = "number" THEN JNum((2 * sum.n + n) \div (2 * n)) ELSE JNaN

\* lines 21-44: getHealthRecommendations(sum / n), by the list it returns
getHealthRecommendations(sum, n) ==
  IF sum.t # "number" THEN "avoid"
  ELSE IF sum.n <= 50 * n THEN "excellent"
  ELSE IF sum.n <= 100 * n THEN "acceptable"
  ELSE IF sum.n <= 150 * n THEN "sensitive"
  ELSE "avoid"

\* lines 12-19: getAQIStatus(aqi), by the status it returns
getAQIStatus(aqi) ==
  IF aqi.t # "number" THEN "Hazardous"
  ELSE IF aqi.n <= 50 THEN "Good"
  ELSE IF aqi.n <= 100 THEN "Moderate"
  ELSE IF aqi.n <= 150 THEN "Unhealthy for Sensitive"
  ELSE IF aqi.n <= 200 THEN "Unhealthy"
  ELSE IF aqi.n <= 300 THEN "Very Unhealthy"
  ELSE "Hazardous"

\* bodies of the real-time map whose stations read 50 or 51
BandMapBodies ==
  {Wrap("map_data", Wrap("air_quality_stations", JArr(l))) :
     l \in UNION {[1..n -> {Station(1, 50), Station(2, 51)}] : n \in 1..MaxBandStations}}

\* x.toFixed(3) throws unless x is a number
ToFixedThrows(x) == x.t \notin {"number", "NaN"}

\* lines 117-276: what rendering the page does with the state it is given;
\* stations.map(station => ... station.aqi ... station.latitude.toFixed(3) ...)
AirQualityRender(loading, stations) ==
  IF loading THEN "spinner"
  ELSE IF stations.t # "array" THEN "threw"
  ELSE IF \E i \in 1..Len(stations.l) :
            \/ Get(stations.l[i], "aqi").threw
            \/ ToFixedThrows(Get(stations.l[i], "latitude").v)
            \/ ToFixedThrows(Get(stations.l[i], "longitude").v)
       THEN "threw"
  ELSE "page"

(***************************************************************************)
(* WasteManagement.tsx, and its earlier variant (part_005) : the bin list  *)
(***************************************************************************)
\* fill levels of the bins a body may hold, in hundredths: 85 stands for fill_level 0.85
FillLevels == {0, 50, 85, 100}

\* a bin of the real-time map, or a waste alert, with the fields the views read;
\* fill_level is carried in hundredths
Bin(id, fill) ==
  JObj([k \in {"id", "name", "fill_level"} |->
          CASE k = "id" -> JNum(id)
            [] k = "name" -> JStr("bin")
            [] OTHER -> JNum(fill)])

BinValues == {Bin(1, f) : f \in FillLevels} \cup {JNull}

BinLists == {JArr(l) : l \in UNION {[1..n -> BinValues] : n \in 0..MaxBins}}

\* WasteManagement.tsx lines 59-66: the demo bins of the catch block, fill_level 87, 34, ...
DemoBins ==
  JArr(<<Bin(1, 8700), Bin(2, 3400), Bin(3, 9200), Bin(4, 1500), Bin(5, 7600), Bin(6, 4500)>>)

\* GET /api/dashboard/real-time-map, as the bin list reads it
BinMapBodies ==
  {Malformed, JNull, EmptyObj, ErrorBody, Wrap("map_data", JNull), Wrap("map_data", EmptyObj)} \cup
  {Wrap("map_data", Wrap("waste_bins", s)) : s \in BinLists \cup {JNull, JStr("n/a")}}

\* GET /api/dashboard/alerts-summary with waste alerts that carry a fill level
BinAlertsBodies ==
  {Wrap("alerts_summary", Obj2("air_quality_alerts", JArr(<<>>), "waste_collection_alerts", l)) :
     l \in BinLists}

\* WasteManagement.tsx line 50: data.map_data?.waste_bins || []
WasteBinsOf(data) ==
  LET m == Get(data, "map_data") IN
  IF m.threw THEN TypeError
  ELSE IF m.v.t \in {"null", "undefined"} THEN Value(JArr(<<>>))
  ELSE LET x == Get(m.v, "waste_bins").v IN
       IF Truthy(x) THEN Value(x) ELSE Value(JArr(<<>>))

\* part_005 line 96: data.map_data.waste_bins || []
WasteBinsOfEarlier(data) ==
  LET m == Get(data, "map_data") IN
  IF m.threw THEN TypeError
  ELSE LET w == Get(m.v, "waste_bins") IN
       IF w.threw THEN TypeError
       ELSE IF Truthy(w.v) THEN Value(w.v) ELSE Value(JArr(<<>>))

\* WasteManagement.tsx lines 12-18: getFillStatus(fillLevel), by the status it returns;
\* the argument in hundredths as fill levels are: 2000 stands for 20
getFillStatus(fillLevel) ==
  IF fillLevel <= 2000 THEN "Empty"
  ELSE IF fillLevel <= 4000 THEN "Low"
  ELSE IF fillLevel <= 7000 THEN "Medium"
  ELSE IF fillLevel <= 9000 THEN "High"
  ELSE "Critical"

\* the percentage a view writes before its % sign, in hundredths of a percent.
\* Alerts.tsx line 82: Math.round(alert.fill_level * 100)
AlertsFillShown(alert) == 100 * Get(alert, "fill_level").v.n

\* part_005 line 140: Math.round(bin.fill_level * 100)
WasteManagementEarlierFillShown(bin) == 100 * Get(bin, "fill_level").v.n

\* WasteManagement.tsx line 258: {bin.fill_level}%
WasteManagementFillShown(bin) == Get(bin, "fill_level").v.n

\* WasteManagement.tsx line 232: getFillStatus(bin.fill_level)
WasteManagementStatusShown(bin) == getFillStatus(Get(bin, "fill_level").v.n)

\* binsData[0] of a value whose length is above 0
FirstOf(v) == IF v.t = "array" THEN v.l[1] ELSE JStr("n")

\* WasteManagement.tsx lines 34-43, part_005 lines 86-87: useState([]), useState(true),
\* useState(null), the statistics; variant is the file the build takes the page from
InitWasteManagement(variant) ==
  [variant |-> variant, pc |-> "mounted", bins |-> JArr(<<>>), loading |-> TRUE,
   selectedBin |-> JNull, needingCollection |-> 47]

(***************************************************************************)
(* AQIPrediction.tsx and WastePrediction (part_003) : the prediction forms *)
(***************************************************************************)
PredictionFailed == "Prediction failed"

\* bodies of POST /api/aqi/predict and POST /api/waste/predict, by the key the form reads
PredictBodies(key) == {Malformed, JNull, ErrorBody, Wrap(key, JNum(1))}

\* no page of App.tsx renders a prediction form: the form is shown in place of a page
FormHosts == {"AQIPrediction", "WastePrediction"}

\* useState(null), useState(false), useState(null); submits counts the requests issued
InitForm ==
  [pc |-> "idle", prediction |-> JNull, loading |-> FALSE, error |-> Null, submits |-> 0]

(***************************************************************************)
(* State                                                                   *)
(***************************************************************************)
VARIABLES
  csv,        \* DelhiLeafletMap: the text served at /data/waste_bins_clean.csv
  mapPC,      \* DelhiLeafletMap: position of the fetch(...).then(...).then(...) chain
  parsed,     \* DelhiLeafletMap: outcome of the parseWasteBinsCSV(csv) call
  binsState,  \* DelhiLeafletMap: useState<BinLocation[]>([])
  parseLog,   \* the outcomes of the parseWasteBinsCSV calls made so far, in call order
  route,      \* App: the path the Router shows (one page is mounted at a time)
  WasteChart, \* WasteChart: data, loading, error, the position of fetchTrends, its response
  AQIChart,   \* AQIChart: data, loading, error, the position of fetchTrends, its response
  Alerts,     \* Alerts: airQualityAlerts, wasteAlerts, loading, the position of fetchAlerts
  Dashboard,  \* Dashboard page: metrics and the position of its overview fetch chain
  backendAqi, \* the backend: the current_aqi that /api/dashboard/overview answers with
  backendTrends, \* the backend: the body /api/dashboard/trends?days=7 answers a chart with
  backendAlerts, \* the backend: the body /api/dashboard/alerts-summary answers Alerts with
  provider,   \* DataProvider: "init" (rendered, effect not run), "mounted", "unmounted"
  interval,   \* DataProvider: the setInterval timer is registered
  airQualityData, loadingAirQuality, errorAirQuality,
  wasteData, loadingWaste, errorWaste,
  dashboardData, loadingDashboard, errorDashboard,
  aqCalls,    \* the fetchAirQualityData calls in issue order: position of each
  wasteCalls, \* the fetchWasteData calls in issue order: position of each
  dashCalls,  \* the fetchDashboardData calls in issue order: position and issuer of each
  lastBuilt,  \* the fetchDashboardData call that ran to its end last: what it threw or built
  lastBodies, \* the four bodies the call of lastBuilt built its data from, if it built any
  latestOutcome, \* how the fetchDashboardData call issued last has ended, "pending" until then
  contextCalls, \* calls consumers may still make to the context's fetch functions
  lateUpdates, \* number of state setters called after DataProvider unmounted
  AIInsights, \* AIInsights page: predictions, loading, position of fetchAIInsights, last render
  AirQuality, \* AirQuality page: stations, averageAQI, selectedStation, loading, last render
  backendInsights, \* the backend: the body /api/ai-insights/predictions answers with
  backendMap, \* the backend: the body /api/dashboard/real-time-map answers with
  AQIPrediction,  \* AQIPrediction form: prediction, loading, error, position of handleSubmit
  WastePrediction, \* WastePrediction form: prediction, loading, error, position of handleSubmit
  WasteManagement \* WasteManagement page: bins, selectedBin, statistics, loading, position of fetchBins

csvVars == <<csv, mapPC, parsed, binsState, parseLog>>

chartVars == <<WasteChart, AQIChart, Alerts>>

pageVars == <<route, chartVars, Dashboard>>

aqVars == <<airQualityData, loadingAirQuality, errorAirQuality, aqCalls>>

wasteVars == <<wasteData, loadingWaste, errorWaste, wasteCalls>>

dashVars == <<dashboardData, loadingDashboard, errorDashboard, dashCalls, lastBuilt, lastBodies,
              latestOutcome>>

lifeVars == <<provider, interval>>

providerVars == <<lifeVars, aqVars, wasteVars, dashVars, contextCalls, lateUpdates>>

backendVars == <<backendAqi, backendTrends, backendAlerts>>

insightVars == <<AIInsights, AirQuality, backendInsights, backendMap>>

formVars == <<AQIPrediction, WastePrediction>>

binVars == <<WasteManagement>>

vars == <<csvVars, pageVars, backendVars, providerVars, insightVars, formVars, binVars>>

(***************************************************************************)
(* Initial states of the components                                        *)
(***************************************************************************)
InitMap ==
  /\ mapPC = "fetching"
  /\ parsed = Returned(<<>>)
  /\ binsState = <<>>
  /\ parseLog = <<>>

\* useState([]), useState(true), useState(null); pc "mounted": rendered, effect not yet run
InitChart ==
  [pc |-> "mounted", data |-> JArr(<<>>), loading |-> TRUE, error |-> Null, res |-> NoResponse]

InitAlerts ==
  [pc |-> "mounted", airQualityAlerts |-> JArr(<<>>), wasteAlerts |-> JArr(<<>>),
   loading |-> TRUE, res |-> NoResponse]

\* the three cards the overview fetch fills: value '...' until then
InitDashboard ==
  [pc |-> "mounted", body |-> NoBody,
   metrics |-> [i \in 0..2 |-> [value |-> JStr("..."), outOf |-> JNum(1200)]]]

\* AIInsights lines 71-77: useState(true), useState({...}); the first render is the spinner
InitAIInsights ==
  [pc |-> "mounted", loading |-> TRUE, predictions |-> InitialPredictions,
   rendered |-> "spinner", aiChat |-> InitialChat, newMessage |-> <<>>, timers |-> 0]

\* AirQuality lines 63-67: useState([]), useState(true), useState(null), useState([]), useState(0)
InitAirQuality ==
  [pc |-> "mounted", loading |-> TRUE, stations |-> JArr(<<>>), selectedStation |-> JNull,
   healthRecommendations |-> "none", averageAQI |-> JNum(0), rendered |-> "spinner"]

InitPages ==
  /\ WasteChart = InitChart
  /\ AQIChart = InitChart
  /\ Alerts = InitAlerts
  /\ Dashboard = InitDashboard
  /\ AIInsights = InitAIInsights
  /\ AirQuality = InitAirQuality
  /\ AQIPrediction = InitForm
  /\ WastePrediction = InitForm
  /\ WasteManagement = InitWasteManagement("page")

\* a backend that answers the two pages with their good bodies
InitInsightsBackend ==
  /\ backendInsights = GoodInsights
  /\ backendMap = GoodMap

\* useState(null), useState(false), useState(null), three times
\* a backend that answers every endpoint with its good body
InitBackend ==
  /\ backendAqi = 0
  /\ backendTrends = GoodBody("trends", 0)
  /\ backendAlerts = GoodBody("alerts_summary", 0)

InitProviderState ==
  /\ provider = "init"
  /\ interval = FALSE
  /\ airQualityData = JNull /\ loadingAirQuality = FALSE /\ errorAirQuality = Null
  /\ wasteData = JNull /\ loadingWaste = FALSE /\ errorWaste = Null
  /\ dashboardData = JNull /\ loadingDashboard = FALSE /\ errorDashboard = Null
  /\ aqCalls = <<>> /\ wasteCalls = <<>> /\ dashCalls = <<>>
  /\ lastBuilt = [id |-> 0, r |-> Err("")]
  /\ lastBodies = NoBodies
  /\ latestOutcome = "none"
  /\ lateUpdates = 0

InitProvider ==
  /\ InitProviderState
  /\ contextCalls = MaxContextCalls

(***************************************************************************)
(* DelhiLeafletMap.tsx : useEffect                                         *)
(***************************************************************************)
InitCSV ==
  /\ csv \in CSVTexts
  /\ InitMap
  /\ route = "/map"
  /\ InitPages
  /\ InitBackend
  /\ InitProvider
  /\ InitInsightsBackend

\* .then((csv) => { setBins(parseWasteBinsCSV(csv)); }): a throw inside the
\* callback rejects the chain, nothing catches it and setBins is not reached
\* a parser that drains the text it reads
MapLoadBinsDrainsText ==
  /\ mapPC = "fetching"
  /\ LET r == parseWasteBinsCSV(csv) IN
       /\ parsed' = r
       /\ parseLog' = Append(parseLog, r)
       /\ csv' = <<>>
       /\ IF r.threw
          THEN mapPC' = "threw" /\ binsState' = binsState
          ELSE mapPC' = "loaded" /\ binsState' = r.bins
  /\ UNCHANGED <<pageVars, formVars, insightVars, binVars, backendVars, providerVars>>

MapLoadBins ==
  /\ mapPC = "fetching"
  /\ LET r == parseWasteBinsCSV(csv) IN
       /\ parsed' = r
       /\ parseLog' = Append(parseLog, r)
       /\ IF r.threw
          THEN mapPC' = "threw" /\ binsState' = binsState
          ELSE mapPC' = "loaded" /\ binsState' = r.bins
  /\ UNCHANGED <<csv, pageVars, formVars, insightVars, binVars, backendVars, providerVars>>

\* fetch or res.text() rejects: the chain has no catch
MapFetchFails ==
  /\ mapPC = "fetching"
  /\ mapPC' = "rejected"
  /\ UNCHANGED <<csv, parsed, binsState, parseLog, pageVars, formVars, insightVars, binVars, backendVars, providerVars>>

\* the Map page is left and shown again: a new DelhiLeafletMap starts from useState([])
\* and its effect fetches the same static file; the chain of the old one has settled
MapRemount ==
  /\ mapPC \in {"loaded", "threw", "rejected"}
  /\ Len(parseLog) < MaxParses
  /\ mapPC' = "fetching"
  /\ binsState' = <<>>
  /\ UNCHANGED <<csv, parsed, parseLog, pageVars, formVars, insightVars, binVars, backendVars, providerVars>>

NextCSV == MapLoadBins \/ MapFetchFails \/ MapRemount

SpecCSV == InitCSV /\ [][NextCSV]_vars

(***************************************************************************)
(* WasteChart (part_000) : fetchTrends                                     *)
(***************************************************************************)
WasteChartError == "Failed to load waste data"

\* WasteChartExtract without the "|| []" default
WasteChartExtractNoDefault(json) ==
  LET p == Get(json, "trends") IN
  IF p.threw THEN TypeError ELSE Get(p.v, "waste_collection")

\* json.trends.waste_collection || []
WasteChartExtract(json) == NestedOrEmpty(json, "trends", "waste_collection")

\* WasteChartCatch showing the message of what was caught
WasteChartCatchMessage(c) ==
  [c EXCEPT !.error = IF c.res.body = Malformed THEN SyntaxErrorMessage ELSE NetworkErrorMessage,
            !.loading = FALSE, !.pc = "done"]

\* catch (err) { setError(...) }; setLoading(false)
WasteChartCatch(c) == [c EXCEPT !.error = WasteChartError, !.loading = FALSE, !.pc = "done"]

\* useEffect: fetchTrends() runs to its first await
WasteChartEffect ==
  /\ route = "/waste-management"
  /\ WasteChart.pc = "mounted"
  /\ WasteChart' = [WasteChart EXCEPT !.loading = TRUE, !.pc = "awaitFetch"]
  /\ UNCHANGED <<csvVars, binVars, formVars, insightVars, route, AQIChart, Alerts, Dashboard, backendVars, providerVars>>

\* await fetch(...) rejects: a network failure
WasteChartFetchRejects ==
  /\ WasteChart.pc = "awaitFetch"
  /\ WasteChart' = WasteChartCatch(WasteChart)
  /\ UNCHANGED <<csvVars, binVars, formVars, insightVars, route, AQIChart, Alerts, Dashboard, backendVars, providerVars>>

\* await fetch(...) resolves with any status: res.ok is not looked at
WasteChartFetchResolves ==
  /\ WasteChart.pc = "awaitFetch"
  /\ \E ok \in BOOLEAN :
       WasteChart' = [WasteChart EXCEPT !.pc = "awaitJson", !.res = [ok |-> ok, body |-> NoBody]]
  /\ UNCHANGED <<csvVars, binVars, formVars, insightVars, route, AQIChart, Alerts, Dashboard, backendVars, providerVars>>

\* await res.json() settles; setData(...) or catch; setLoading(false)
WasteChartJsonSettles ==
  /\ WasteChart.pc = "awaitJson"
  /\ LET body == backendTrends
         c == [WasteChart EXCEPT !.res.body = body]
         x == WasteChartExtract(body)
     IN WasteChart' =
            IF body = Malformed \/ x.threw THEN WasteChartCatch(c)
            ELSE [c EXCEPT !.data = x.v, !.loading = FALSE, !.pc = "done"]
  /\ UNCHANGED <<csvVars, binVars, formVars, insightVars, route, AQIChart, Alerts, Dashboard, backendVars, providerVars>>

(***************************************************************************)
(* AQIChart (part_003) : fetchTrends                                       *)
(***************************************************************************)
AQIChartError == "Failed to load AQI data"

\* json.trends.air_quality || []
AQIChartExtract(json) == NestedOrEmpty(json, "trends", "air_quality")

AQIChartCatch(c) == [c EXCEPT !.error = AQIChartError, !.loading = FALSE, !.pc = "done"]

AQIChartEffect ==
  /\ route = "/air-quality"
  /\ AQIChart.pc = "mounted"
  /\ AQIChart' = [AQIChart EXCEPT !.loading = TRUE, !.pc = "awaitFetch"]
  /\ UNCHANGED <<csvVars, binVars, formVars, insightVars, route, WasteChart, Alerts, Dashboard, backendVars, providerVars>>

AQIChartFetchRejects ==
  /\ AQIChart.pc = "awaitFetch"
  /\ AQIChart' = AQIChartCatch(AQIChart)
  /\ UNCHANGED <<csvVars, binVars, formVars, insightVars, route, WasteChart, Alerts, Dashboard, backendVars, providerVars>>

AQIChartFetchResolves ==
  /\ AQIChart.pc = "awaitFetch"
  /\ \E ok \in BOOLEAN :
       AQIChart' = [AQIChart EXCEPT !.pc = "awaitJson", !.res = [ok |-> ok, body |-> NoBody]]
  /\ UNCHANGED <<csvVars, binVars, formVars, insightVars, route, WasteChart, Alerts, Dashboard, backendVars, providerVars>>

AQIChartJsonSettles ==
  /\ AQIChart.pc = "awaitJson"
  /\ LET body == backendTrends
         c == [AQIChart EXCEPT !.res.body = body]
         x == AQIChartExtract(body)
     IN AQIChart' =
            IF body = Malformed \/ x.threw THEN AQIChartCatch(c)
            ELSE [c EXCEPT !.data = x.v, !.loading = FALSE, !.pc = "done"]
  /\ UNCHANGED <<csvVars, binVars, formVars, insightVars, route, WasteChart, Alerts, Dashboard, backendVars, providerVars>>

(***************************************************************************)
(* Alerts.tsx : fetchAlerts                                                *)
(***************************************************************************)
\* data.alerts_summary.air_quality_alerts || []
AlertsExtractAir(json) == NestedOrEmpty(json, "alerts_summary", "air_quality_alerts")

\* data.alerts_summary.waste_collection_alerts || []
AlertsExtractWaste(json) == NestedOrEmpty(json, "alerts_summary", "waste_collection_alerts")

\* catch (err) { setAirQualityAlerts([]); setWasteAlerts([]); }; setLoading(false)
AlertsCatch(c) ==
  [c EXCEPT !.airQualityAlerts = JArr(<<>>), !.wasteAlerts = JArr(<<>>),
            !.loading = FALSE, !.pc = "done"]

AlertsEffect ==
  /\ route = "/alerts"
  /\ Alerts.pc = "mounted"
  /\ Alerts' = [Alerts EXCEPT !.loading = TRUE, !.pc = "awaitFetch"]
  /\ UNCHANGED <<csvVars, binVars, formVars, insightVars, route, WasteChart, AQIChart, Dashboard, backendVars, providerVars>>

AlertsFetchRejects ==
  /\ Alerts.pc = "awaitFetch"
  /\ Alerts' = AlertsCatch(Alerts)
  /\ UNCHANGED <<csvVars, binVars, formVars, insightVars, route, WasteChart, AQIChart, Dashboard, backendVars, providerVars>>

AlertsFetchResolves ==
  /\ Alerts.pc = "awaitFetch"
  /\ \E ok \in BOOLEAN :
       Alerts' = [Alerts EXCEPT !.pc = "awaitJson", !.res = [ok |-> ok, body |-> NoBody]]
  /\ UNCHANGED <<csvVars, binVars, formVars, insightVars, route, WasteChart, AQIChart, Dashboard, backendVars, providerVars>>

\* the first setter throws before either list is set, or neither throws
AlertsJsonSettles ==
  /\ Alerts.pc = "awaitJson"
  /\ LET body == backendAlerts
         c == [Alerts EXCEPT !.res.body = body]
         a == AlertsExtractAir(body)
         w == AlertsExtractWaste(body)
     IN Alerts' =
            IF body = Malformed \/ a.threw THEN AlertsCatch(c)
            ELSE IF w.threw THEN AlertsCatch([c EXCEPT !.airQualityAlerts = a.v])
            ELSE [c EXCEPT !.airQualityAlerts = a.v, !.wasteAlerts = w.v,
                           !.loading = FALSE, !.pc = "done"]
  /\ UNCHANGED <<csvVars, binVars, formVars, insightVars, route, WasteChart, AQIChart, Dashboard, backendVars, providerVars>>

(***************************************************************************)
(* The pages of App.tsx that hold the three list fetchers                  *)
(***************************************************************************)
ChartRoutes == {"/waste-management", "/air-quality", "/alerts"}

InitCharts ==
  /\ csv = ExampleCSV
  /\ InitMap
  /\ route \in ChartRoutes
  /\ InitPages
  /\ backendAqi = 0
  /\ backendTrends \in (IF route = "/alerts" THEN {GoodBody("trends", 0)} ELSE TrendsBodies)
  /\ backendAlerts \in (IF route = "/alerts" THEN AlertsBodies ELSE {GoodBody("alerts_summary", 0)})
  /\ InitProvider
  /\ InitInsightsBackend

NextCharts ==
  \/ WasteChartEffect \/ WasteChartFetchRejects \/ WasteChartFetchResolves \/ WasteChartJsonSettles
  \/ AQIChartEffect \/ AQIChartFetchRejects \/ AQIChartFetchResolves \/ AQIChartJsonSettles
  \/ AlertsEffect \/ AlertsFetchRejects \/ AlertsFetchResolves \/ AlertsJsonSettles

SpecCharts == InitCharts /\ [][NextCharts]_vars

(***************************************************************************)
(* DataContext (parseWasteBinsCSV.ts 28-198) : DataProvider                *)
(***************************************************************************)
AirQualityNotOk == "Failed to fetch air quality data"

WasteNotOk == "Failed to fetch waste data"

DashboardNotOk == "Failed to fetch dashboard data"

\* a state setter of DataProvider takes effect only while it is mounted
Alive == provider = "mounted"

\* the four bodies of one poll: all good, or the overview or the trends body is not
DashBodies(aqi) ==
  {[e \in Endpoints |-> GoodBody(e, aqi)]} \cup
  {[e \in Endpoints |-> IF e = bad THEN b ELSE GoodBody(e, aqi)] :
     bad \in {"overview", "trends"}, b \in DegenerateBodies}

\* lines 142-154: the four json() promises, then the object handed to setDashboardData
BuildDashboardData(b) ==
  IF \E e \in Endpoints : b[e] = Malformed THEN Err(SyntaxErrorMessage)
  ELSE IF \E e \in Endpoints : Get(b[e], e).threw THEN Err(NullPropertyMessage)
  ELSE Ok(JObj([e \in Endpoints |-> Get(b[e], e).v]))

\* lines 127-136: setLoadingDashboard(true); setErrorDashboard(null); the four fetches
fetchDashboardData(by) ==
  /\ dashCalls' = Append(dashCalls, [pc |-> "awaitFetch", by |-> by])
  /\ loadingDashboard' = TRUE
  /\ errorDashboard' = Null
  /\ latestOutcome' = "pending"
  /\ UNCHANGED <<dashboardData, lastBuilt, lastBodies>>

\* DashFail with a catch block that issues the fetch again
DashFailRetries(i, message) ==
  /\ dashCalls' = IF Len(dashCalls) < 2 + MaxTicks
                  THEN Append([dashCalls EXCEPT ![i].pc = "done"], [pc |-> "awaitFetch", by |-> "retry"])
                  ELSE [dashCalls EXCEPT ![i].pc = "done"]
  /\ lastBuilt' = [id |-> i, r |-> Err(message)]
  /\ latestOutcome' = IF Len(dashCalls') > Len(dashCalls) THEN "pending"
                      ELSE IF i = Len(dashCalls) THEN "failed" ELSE latestOutcome
  /\ IF Alive
     THEN /\ errorDashboard' = message
          /\ loadingDashboard' = FALSE
          /\ UNCHANGED lateUpdates
     ELSE /\ lateUpdates' = lateUpdates + 2
          /\ UNCHANGED <<errorDashboard, loadingDashboard>>
  /\ UNCHANGED dashboardData

\* DashFail after a partial update: the failed call stores an object without its parts
DashFailPartial(i, message) ==
  /\ dashCalls' = [dashCalls EXCEPT ![i].pc = "done"]
  /\ lastBuilt' = [id |-> i, r |-> Err(message)]
  /\ latestOutcome' = IF i = Len(dashCalls) THEN "failed" ELSE latestOutcome
  /\ IF Alive
     THEN /\ errorDashboard' = message
          /\ loadingDashboard' = FALSE
          /\ dashboardData' = JObj([e \in Endpoints |-> JUndefined])
          /\ UNCHANGED lateUpdates
     ELSE /\ lateUpdates' = lateUpdates + 2
          /\ UNCHANGED <<errorDashboard, loadingDashboard, dashboardData>>

\* lines 155-160 of call i: catch sets the message of what was thrown, finally clears loading
DashFail(i, message) ==
  /\ dashCalls' = [dashCalls EXCEPT ![i].pc = "done"]
  /\ lastBuilt' = [id |-> i, r |-> Err(message)]
  /\ latestOutcome' = IF i = Len(dashCalls) THEN "failed" ELSE latestOutcome
  /\ IF Alive
     THEN /\ errorDashboard' = message
          /\ loadingDashboard' = FALSE
          /\ UNCHANGED lateUpdates
     ELSE /\ lateUpdates' = lateUpdates + 2
          /\ UNCHANGED <<errorDashboard, loadingDashboard>>
  /\ UNCHANGED dashboardData

\* DashSucceed with a request-sequence guard: only the call issued last is applied
DashSucceedGuarded(i, data) ==
  /\ dashCalls' = [dashCalls EXCEPT ![i].pc = "done"]
  /\ lastBuilt' = [id |-> i, r |-> Ok(data)]
  /\ latestOutcome' = IF i = Len(dashCalls) THEN "ok" ELSE latestOutcome
  /\ IF Alive
     THEN /\ dashboardData' = IF i = Len(dashCalls) THEN data ELSE dashboardData
          /\ loadingDashboard' = FALSE
          /\ UNCHANGED lateUpdates
     ELSE /\ lateUpdates' = lateUpdates + 2
          /\ UNCHANGED <<dashboardData, loadingDashboard>>
  /\ UNCHANGED errorDashboard

\* DashSucceed merging the new object into the one held: a field the poll did not
\* define keeps its earlier value
DashSucceedMerges(i, data) ==
  /\ dashCalls' = [dashCalls EXCEPT ![i].pc = "done"]
  /\ lastBuilt' = [id |-> i, r |-> Ok(data)]
  /\ latestOutcome' = IF i = Len(dashCalls) THEN "ok" ELSE latestOutcome
  /\ IF Alive
     THEN /\ dashboardData' =
               IF dashboardData.t = "object"
               THEN JObj([e \in Endpoints |->
                            IF data.o[e] = JUndefined THEN dashboardData.o[e] ELSE data.o[e]])
               ELSE data
          /\ loadingDashboard' = FALSE
          /\ UNCHANGED lateUpdates
     ELSE /\ lateUpdates' = lateUpdates + 2
          /\ UNCHANGED <<dashboardData, loadingDashboard>>
  /\ UNCHANGED errorDashboard

\* lines 149-154 and 158-160 of call i
DashSucceed(i, data) ==
  /\ dashCalls' = [dashCalls EXCEPT ![i].pc = "done"]
  /\ lastBuilt' = [id |-> i, r |-> Ok(data)]
  /\ latestOutcome' = IF i = Len(dashCalls) THEN "ok" ELSE latestOutcome
  /\ IF Alive
     THEN /\ dashboardData' = data
          /\ loadingDashboard' = FALSE
          /\ UNCHANGED lateUpdates
     ELSE /\ lateUpdates' = lateUpdates + 2
          /\ UNCHANGED <<dashboardData, loadingDashboard>>
  /\ UNCHANGED errorDashboard

\* lines 164-173: the effect calls fetchDashboardData and registers the timer
ProviderEffect ==
  /\ provider = "init"
  /\ provider' = "mounted"
  /\ interval' = TRUE
  /\ fetchDashboardData("effect")
  /\ UNCHANGED <<csvVars, binVars, formVars, insightVars, pageVars, backendVars, aqVars, wasteVars, contextCalls, lateUpdates>>

\* Tick that skips its fetch while an earlier call is pending
TickWhenIdle ==
  /\ interval
  /\ Len(dashCalls) < 1 + MaxTicks
  /\ \A i \in 1..Len(dashCalls) : dashCalls[i].pc = "done"
  /\ fetchDashboardData("tick")
  /\ UNCHANGED <<csvVars, binVars, formVars, insightVars, pageVars, backendVars, lifeVars, aqVars, wasteVars, contextCalls, lateUpdates>>

\* lines 168-170: the timer fires
Tick ==
  /\ interval
  /\ Len(dashCalls) < 1 + MaxTicks
  /\ fetchDashboardData("tick")
  /\ UNCHANGED <<csvVars, binVars, formVars, insightVars, pageVars, backendVars, lifeVars, aqVars, wasteVars, contextCalls, lateUpdates>>

\* ProviderUnmount with a cleanup that does not clear the timer
ProviderUnmountLeavesTimer ==
  /\ provider = "mounted"
  /\ provider' = "unmounted"
  /\ interval' = interval
  /\ UNCHANGED <<csvVars, binVars, formVars, insightVars, pageVars, backendVars, aqVars, wasteVars, dashVars, contextCalls, lateUpdates>>

\* line 172: the cleanup clears the timer; calls in flight are left to run
ProviderUnmount ==
  /\ provider = "mounted"
  /\ provider' = "unmounted"
  /\ interval' = FALSE
  /\ UNCHANGED <<csvVars, binVars, formVars, insightVars, pageVars, backendVars, aqVars, wasteVars, dashVars, contextCalls, lateUpdates>>

\* line 131: one of the four fetches rejects, so Promise.all rejects
DashFetchRejects ==
  \E i \in 1..Len(dashCalls) :
    /\ dashCalls[i].pc = "awaitFetch"
    /\ DashFail(i, NetworkErrorMessage)
    /\ lastBodies' = NoBodies
    /\ UNCHANGED <<csvVars, binVars, formVars, insightVars, pageVars, backendVars, lifeVars, aqVars, wasteVars, contextCalls>>

\* lines 131-140: the four responses arrive; a non-ok one throws the fixed Error
DashFetchResolves ==
  \E i \in 1..Len(dashCalls) : \E oks \in [Endpoints -> BOOLEAN] :
    /\ dashCalls[i].pc = "awaitFetch"
    /\ IF \A e \in Endpoints : oks[e]
       THEN /\ dashCalls' = [dashCalls EXCEPT ![i].pc = "awaitJson"]
            /\ UNCHANGED <<dashboardData, loadingDashboard, errorDashboard, lastBuilt,
                           latestOutcome, lateUpdates>>
       ELSE DashFail(i, DashboardNotOk)
    /\ lastBodies' = IF \A e \in Endpoints : oks[e] THEN lastBodies ELSE NoBodies
    /\ UNCHANGED <<csvVars, binVars, formVars, insightVars, pageVars, backendVars, lifeVars, aqVars, wasteVars, contextCalls>>

\* lines 142-160: the four bodies are parsed
DashJsonSettles ==
  \E i \in 1..Len(dashCalls) : \E b \in DashBodies(backendAqi) :
    /\ dashCalls[i].pc = "awaitJson"
    /\ LET r == BuildDashboardData(b) IN
         IF r.threw THEN DashFail(i, r.message) ELSE DashSucceed(i, r.v)
    /\ lastBodies' = IF BuildDashboardData(b).threw THEN NoBodies ELSE b
    /\ UNCHANGED <<csvVars, binVars, formVars, insightVars, pageVars, backendVars, lifeVars, aqVars, wasteVars, contextCalls>>

\* the backend's reading changes
BackendChange ==
  /\ \E a \in 0..MaxAqi : a # backendAqi /\ backendAqi' = a
  /\ UNCHANGED <<csvVars, binVars, formVars, insightVars, pageVars, backendTrends, backendAlerts, providerVars>>

(***************************************************************************)
(* Dashboard.tsx : the overview fetch chain of the page's only effect      *)
(***************************************************************************)
\* bodies of GET /api/dashboard/overview as the page may receive them
OverviewBodies(aqi) ==
  {GoodBody("overview", aqi), Wrap("overview", JNull), Wrap("overview", EmptyObj)}
  \cup DegenerateBodies

\* v || d
OrElse(v, d) == IF Truthy(v) THEN v ELSE d

\* lines 79-84: the cards from data.overview
MetricsFromOverview(prev, o) ==
  [i \in 0..2 |->
     CASE i = 0 -> [prev[0] EXCEPT !.value = OrElse(Get(o, "current_aqi").v, JStr("168"))]
       [] i = 1 -> [prev[1] EXCEPT !.value = OrElse(Get(o, "bins_needing_collection").v, JStr("47")),
                                   !.outOf = OrElse(Get(o, "total_waste_bins").v, JNum(1200))]
       [] OTHER -> [prev[2] EXCEPT !.value = OrElse(Get(o, "active_alerts").v, JStr("3"))]]

\* lines 89-94: the demo values
DemoMetrics(prev) ==
  [i \in 0..2 |->
     [prev[i] EXCEPT !.value = CASE i = 0 -> JStr("168") [] i = 1 -> JStr("47") [] OTHER -> JStr("3")]]

\* lines 73-75: the effect runs once, with [] as its dependencies; no timer
DashboardEffect ==
  /\ route = "/"
  /\ provider # "unmounted"
  /\ Dashboard.pc = "mounted"
  /\ Dashboard' = [Dashboard EXCEPT !.pc = "awaitFetch"]
  /\ UNCHANGED <<csvVars, binVars, formVars, insightVars, route, chartVars, backendVars, providerVars>>

\* lines 87-96: fetch rejects, catch shows the demo values
DashboardOverviewRejects ==
  /\ provider # "unmounted"
  /\ Dashboard.pc = "awaitFetch"
  /\ Dashboard' = [Dashboard EXCEPT !.pc = "done", !.metrics = DemoMetrics(Dashboard.metrics)]
  /\ UNCHANGED <<csvVars, binVars, formVars, insightVars, route, chartVars, backendVars, providerVars>>

\* line 76: the response arrives, any status
DashboardOverviewResolves ==
  /\ provider # "unmounted"
  /\ Dashboard.pc = "awaitFetch"
  /\ Dashboard' = [Dashboard EXCEPT !.pc = "awaitJson"]
  /\ UNCHANGED <<csvVars, binVars, formVars, insightVars, route, chartVars, backendVars, providerVars>>

\* lines 76-96: res.json() settles
DashboardOverviewJsonSettles ==
  /\ provider # "unmounted"
  /\ Dashboard.pc = "awaitJson"
  /\ \E data \in OverviewBodies(backendAqi) :
       Dashboard' =
         IF data = Malformed
         THEN [Dashboard EXCEPT !.pc = "done", !.body = data,
                 !.metrics = DemoMetrics(Dashboard.metrics)]
         ELSE IF Truthy(data) /\ Truthy(Get(data, "overview").v)
         THEN [Dashboard EXCEPT !.pc = "done", !.body = data,
                 !.metrics = MetricsFromOverview(Dashboard.metrics, Get(data, "overview").v)]
         ELSE [Dashboard EXCEPT !.pc = "done", !.body = data]
  /\ UNCHANGED <<csvVars, binVars, formVars, insightVars, route, chartVars, backendVars, providerVars>>

(***************************************************************************)
(* The application at "/": DataProvider polling around the Dashboard page  *)
(***************************************************************************)
InitPolling ==
  /\ csv = ExampleCSV
  /\ InitMap
  /\ route = "/"
  /\ InitPages
  /\ backendAqi \in 0..MaxAqi
  /\ backendTrends = GoodBody("trends", 0)
  /\ backendAlerts = GoodBody("alerts_summary", 0)
  /\ InitProvider
  /\ InitInsightsBackend

NextPolling ==
  \/ ProviderEffect \/ Tick \/ ProviderUnmount
  \/ DashFetchRejects \/ DashFetchResolves \/ DashJsonSettles
  \/ BackendChange
  \/ DashboardEffect \/ DashboardOverviewRejects \/ DashboardOverviewResolves
  \/ DashboardOverviewJsonSettles

SpecPolling == InitPolling /\ [][NextPolling]_vars

(***************************************************************************)
(* DataProvider : fetchAirQualityData and fetchWasteData, and the calls    *)
(* consumers of the context make                                           *)
(***************************************************************************)
\* bodies of GET /api/air-quality/current and GET /api/waste/summary
SummaryBodies == {Malformed, JNull, ErrorBody, Wrap("count", JNum(3))}

\* lines 96-100 of call i: catch sets the message of what was thrown
AirQualityFail(i, message) ==
  /\ aqCalls' = [aqCalls EXCEPT ![i] = "done"]
  /\ IF Alive
     THEN /\ errorAirQuality' = message
          /\ loadingAirQuality' = FALSE
          /\ UNCHANGED lateUpdates
     ELSE /\ lateUpdates' = lateUpdates + 2
          /\ UNCHANGED <<errorAirQuality, loadingAirQuality>>
  /\ UNCHANGED airQualityData

\* lines 84-89: a consumer calls fetchAirQualityData
CallFetchAirQualityData ==
  /\ Alive
  /\ contextCalls > 0
  /\ contextCalls' = contextCalls - 1
  /\ aqCalls' = Append(aqCalls, "awaitFetch")
  /\ loadingAirQuality' = TRUE
  /\ errorAirQuality' = Null
  /\ UNCHANGED <<csvVars, binVars, formVars, insightVars, pageVars, backendVars, lifeVars, airQualityData, wasteVars, dashVars, lateUpdates>>

AirQualityFetchRejects ==
  \E i \in 1..Len(aqCalls) :
    /\ aqCalls[i] = "awaitFetch"
    /\ AirQualityFail(i, NetworkErrorMessage)
    /\ UNCHANGED <<csvVars, binVars, formVars, insightVars, pageVars, backendVars, lifeVars, wasteVars, dashVars, contextCalls>>

\* lines 89-92
AirQualityFetchResolves ==
  \E i \in 1..Len(aqCalls) : \E ok \in BOOLEAN :
    /\ aqCalls[i] = "awaitFetch"
    /\ IF ok
       THEN /\ aqCalls' = [aqCalls EXCEPT ![i] = "awaitJson"]
            /\ UNCHANGED <<airQualityData, loadingAirQuality, errorAirQuality, lateUpdates>>
       ELSE AirQualityFail(i, AirQualityNotOk)
    /\ UNCHANGED <<csvVars, binVars, formVars, insightVars, pageVars, backendVars, lifeVars, wasteVars, dashVars, contextCalls>>

\* lines 94-100
AirQualityJsonSettles ==
  \E i \in 1..Len(aqCalls) : \E data \in SummaryBodies :
    /\ aqCalls[i] = "awaitJson"
    /\ IF data = Malformed
       THEN AirQualityFail(i, SyntaxErrorMessage)
       ELSE /\ aqCalls' = [aqCalls EXCEPT ![i] = "done"]
            /\ IF Alive
               THEN /\ airQualityData' = data
                    /\ loadingAirQuality' = FALSE
                    /\ UNCHANGED lateUpdates
               ELSE /\ lateUpdates' = lateUpdates + 2
                    /\ UNCHANGED <<airQualityData, loadingAirQuality>>
            /\ UNCHANGED errorAirQuality
    /\ UNCHANGED <<csvVars, binVars, formVars, insightVars, pageVars, backendVars, lifeVars, wasteVars, dashVars, contextCalls>>

\* lines 117-121 of call i
WasteFail(i, message) ==
  /\ wasteCalls' = [wasteCalls EXCEPT ![i] = "done"]
  /\ IF Alive
     THEN /\ errorWaste' = message
          /\ loadingWaste' = FALSE
          /\ UNCHANGED lateUpdates
     ELSE /\ lateUpdates' = lateUpdates + 2
          /\ UNCHANGED <<errorWaste, loadingWaste>>
  /\ UNCHANGED wasteData

\* lines 105-110: a consumer calls fetchWasteData
CallFetchWasteData ==
  /\ Alive
  /\ contextCalls > 0
  /\ contextCalls' = contextCalls - 1
  /\ wasteCalls' = Append(wasteCalls, "awaitFetch")
  /\ loadingWaste' = TRUE
  /\ errorWaste' = Null
  /\ UNCHANGED <<csvVars, binVars, formVars, insightVars, pageVars, backendVars, lifeVars, wasteData, aqVars, dashVars, lateUpdates>>

\* WasteFetchRejects with a finally block that also clears the loading flag of the
\* air quality fetch
WasteFetchRejectsClearsBoth ==
  \E i \in 1..Len(wasteCalls) :
    /\ wasteCalls[i] = "awaitFetch"
    /\ WasteFail(i, NetworkErrorMessage)
    /\ loadingAirQuality' = FALSE
    /\ UNCHANGED <<csvVars, binVars, formVars, insightVars, pageVars, backendVars, lifeVars,
                   airQualityData, errorAirQuality, aqCalls, dashVars, contextCalls>>

WasteFetchRejects ==
  \E i \in 1..Len(wasteCalls) :
    /\ wasteCalls[i] = "awaitFetch"
    /\ WasteFail(i, NetworkErrorMessage)
    /\ UNCHANGED <<csvVars, binVars, formVars, insightVars, pageVars, backendVars, lifeVars, aqVars, dashVars, contextCalls>>

\* lines 110-113
WasteFetchResolves ==
  \E i \in 1..Len(wasteCalls) : \E ok \in BOOLEAN :
    /\ wasteCalls[i] = "awaitFetch"
    /\ IF ok
       THEN /\ wasteCalls' = [wasteCalls EXCEPT ![i] = "awaitJson"]
            /\ UNCHANGED <<wasteData, loadingWaste, errorWaste, lateUpdates>>
       ELSE WasteFail(i, WasteNotOk)
    /\ UNCHANGED <<csvVars, binVars, formVars, insightVars, pageVars, backendVars, lifeVars, aqVars, dashVars, contextCalls>>

\* lines 115-121
WasteJsonSettles ==
  \E i \in 1..Len(wasteCalls) : \E data \in SummaryBodies :
    /\ wasteCalls[i] = "awaitJson"
    /\ IF data = Malformed
       THEN WasteFail(i, SyntaxErrorMessage)
       ELSE /\ wasteCalls' = [wasteCalls EXCEPT ![i] = "done"]
            /\ IF Alive
               THEN /\ wasteData' = data
                    /\ loadingWaste' = FALSE
                    /\ UNCHANGED lateUpdates
               ELSE /\ lateUpdates' = lateUpdates + 2
                    /\ UNCHANGED <<wasteData, loadingWaste>>
            /\ UNCHANGED errorWaste
    /\ UNCHANGED <<csvVars, binVars, formVars, insightVars, pageVars, backendVars, lifeVars, aqVars, dashVars, contextCalls>>

\* line 189: a consumer calls the fetchDashboardData of the context
CallFetchDashboardData ==
  /\ Alive
  /\ contextCalls > 0
  /\ contextCalls' = contextCalls - 1
  /\ fetchDashboardData("consumer")
  /\ UNCHANGED <<csvVars, binVars, formVars, insightVars, pageVars, backendVars, lifeVars, aqVars, wasteVars, lateUpdates>>

(***************************************************************************)
(* The prediction forms : handleSubmit                                     *)
(***************************************************************************)
\* the submit button is disabled while loading
CanSubmit(f) == ~f.loading /\ f.pc = "idle" /\ f.submits < MaxSubmits

\* FormSubmitted without setError(null)
FormSubmittedKeepsError(f) ==
  [f EXCEPT !.loading = TRUE, !.prediction = JNull,
            !.pc = "awaitFetch", !.submits = f.submits + 1]

\* FormSubmitted without setPrediction(null)
FormSubmittedKeepsPrediction(f) ==
  [f EXCEPT !.loading = TRUE, !.error = Null,
            !.pc = "awaitFetch", !.submits = f.submits + 1]

\* setLoading(true); setError(null); setPrediction(null); then the POST is issued
FormSubmitted(f) ==
  [f EXCEPT !.loading = TRUE, !.error = Null, !.prediction = JNull,
            !.pc = "awaitFetch", !.submits = f.submits + 1]

\* catch (err) { setError('Prediction failed') } finally { setLoading(false) }
FormCatch(f) == [f EXCEPT !.error = PredictionFailed, !.loading = FALSE, !.pc = "idle"]

\* if (!response.ok) throw new Error('Prediction failed')
FormResponse(f, ok) == IF ok THEN [f EXCEPT !.pc = "awaitJson"] ELSE FormCatch(f)

\* setPrediction(result.<key>); finally setLoading(false)
FormResult(f, result, key) ==
  IF result = Malformed \/ Get(result, key).threw THEN FormCatch(f)
  ELSE [f EXCEPT !.prediction = Get(result, key).v, !.loading = FALSE, !.pc = "idle"]

\* AQIPrediction lines 23-33
AQIPredictionSubmit ==
  /\ route = "AQIPrediction"
  /\ CanSubmit(AQIPrediction)
  /\ AQIPrediction' = FormSubmitted(AQIPrediction)
  /\ UNCHANGED <<csvVars, binVars, insightVars, pageVars, backendVars, providerVars, WastePrediction>>

\* AQIPrediction lines 29-41: the POST rejects
AQIPredictionFetchRejects ==
  /\ AQIPrediction.pc = "awaitFetch"
  /\ AQIPrediction' = FormCatch(AQIPrediction)
  /\ UNCHANGED <<csvVars, binVars, insightVars, pageVars, backendVars, providerVars, WastePrediction>>

\* AQIPrediction lines 29-34: the response arrives
AQIPredictionFetchResolves ==
  /\ AQIPrediction.pc = "awaitFetch"
  /\ \E ok \in BOOLEAN : AQIPrediction' = FormResponse(AQIPrediction, ok)
  /\ UNCHANGED <<csvVars, binVars, insightVars, pageVars, backendVars, providerVars, WastePrediction>>

\* AQIPrediction lines 35-41: setPrediction(result.predicted_aqi)
AQIPredictionJsonSettles ==
  /\ AQIPrediction.pc = "awaitJson"
  /\ \E result \in PredictBodies("predicted_aqi") :
       AQIPrediction' = FormResult(AQIPrediction, result, "predicted_aqi")
  /\ UNCHANGED <<csvVars, binVars, insightVars, pageVars, backendVars, providerVars, WastePrediction>>

\* WastePrediction lines 76-86
WastePredictionSubmit ==
  /\ route = "WastePrediction"
  /\ CanSubmit(WastePrediction)
  /\ WastePrediction' = FormSubmitted(WastePrediction)
  /\ UNCHANGED <<csvVars, binVars, insightVars, pageVars, backendVars, providerVars, AQIPrediction>>

\* WastePrediction lines 82-94: the POST rejects
WastePredictionFetchRejects ==
  /\ WastePrediction.pc = "awaitFetch"
  /\ WastePrediction' = FormCatch(WastePrediction)
  /\ UNCHANGED <<csvVars, binVars, insightVars, pageVars, backendVars, providerVars, AQIPrediction>>

\* WastePrediction lines 82-87: the response arrives
WastePredictionFetchResolves ==
  /\ WastePrediction.pc = "awaitFetch"
  /\ \E ok \in BOOLEAN : WastePrediction' = FormResponse(WastePrediction, ok)
  /\ UNCHANGED <<csvVars, binVars, insightVars, pageVars, backendVars, providerVars, AQIPrediction>>

\* WastePrediction lines 88-94: setPrediction(result.predicted_fill_level)
WastePredictionJsonSettles ==
  /\ WastePrediction.pc = "awaitJson"
  /\ \E result \in PredictBodies("predicted_fill_level") :
       WastePrediction' = FormResult(WastePrediction, result, "predicted_fill_level")
  /\ UNCHANGED <<csvVars, binVars, insightVars, pageVars, backendVars, providerVars, AQIPrediction>>

(***************************************************************************)
(* The fetchers that keep an error state: the three of DataProvider and    *)
(* the chart of the page shown, or one prediction form                     *)
(***************************************************************************)
InitFetchers ==
  /\ csv = ExampleCSV
  /\ InitMap
  /\ route \in {"/waste-management", "/air-quality"} \cup FormHosts
  /\ InitPages
  /\ backendAqi = 0
  /\ backendTrends \in {Malformed, GoodBody("trends", 0)}
  /\ backendAlerts = GoodBody("alerts_summary", 0)
  /\ InitProvider
  /\ InitInsightsBackend

NextFetchers ==
  \/ ProviderEffect
  \/ CallFetchAirQualityData \/ AirQualityFetchRejects \/ AirQualityFetchResolves
  \/ AirQualityJsonSettles
  \/ CallFetchWasteData \/ WasteFetchRejects \/ WasteFetchResolves \/ WasteJsonSettles
  \/ CallFetchDashboardData \/ DashFetchRejects \/ DashFetchResolves \/ DashJsonSettles
  \/ WasteChartEffect \/ WasteChartFetchRejects \/ WasteChartFetchResolves \/ WasteChartJsonSettles
  \/ AQIChartEffect \/ AQIChartFetchRejects \/ AQIChartFetchResolves \/ AQIChartJsonSettles
  \/ AQIPredictionSubmit \/ AQIPredictionFetchRejects \/ AQIPredictionFetchResolves
  \/ AQIPredictionJsonSettles
  \/ WastePredictionSubmit \/ WastePredictionFetchRejects \/ WastePredictionFetchResolves
  \/ WastePredictionJsonSettles

SpecFetchers == InitFetchers /\ [][NextFetchers]_vars

(***************************************************************************)
(* AIInsights.tsx : fetchAIInsights and the render that follows it         *)
(***************************************************************************)
\* state c after its setters ran, drawn again
AIInsightsDrawn(c) == [c EXCEPT !.rendered = AIInsightsRender(c.loading, c.predictions)]

\* lines 101-145: catch sets the demo data; setLoading(false)
AIInsightsCatch(c) ==
  AIInsightsDrawn([c EXCEPT !.predictions = DemoPredictions, !.loading = FALSE, !.pc = "done"])

\* lines 91-98: the effect calls fetchAIInsights, which runs to its first await
AIInsightsEffect ==
  /\ route = "/ai-insights"
  /\ AIInsights.pc = "mounted"
  /\ AIInsights' = AIInsightsDrawn([AIInsights EXCEPT !.loading = TRUE, !.pc = "awaitFetch"])
  /\ UNCHANGED <<csvVars, binVars, formVars, pageVars, backendVars, providerVars, AirQuality, backendInsights, backendMap>>

\* line 98: fetch rejects
AIInsightsFetchRejects ==
  /\ AIInsights.pc = "awaitFetch"
  /\ AIInsights' = AIInsightsCatch(AIInsights)
  /\ UNCHANGED <<csvVars, binVars, formVars, pageVars, backendVars, providerVars, AirQuality, backendInsights, backendMap>>

\* line 98: the response arrives, any status
AIInsightsFetchResolves ==
  /\ AIInsights.pc = "awaitFetch"
  /\ AIInsights' = [AIInsights EXCEPT !.pc = "awaitJson"]
  /\ UNCHANGED <<csvVars, binVars, formVars, pageVars, backendVars, providerVars, AirQuality, backendInsights, backendMap>>

\* lines 99-100 and 145: setPredictions(data) with whatever the body parsed to
AIInsightsJsonSettles ==
  /\ AIInsights.pc = "awaitJson"
  /\ AIInsights' =
       IF backendInsights = Malformed THEN AIInsightsCatch(AIInsights)
       ELSE AIInsightsDrawn([AIInsights EXCEPT !.predictions = backendInsights,
                                               !.loading = FALSE, !.pc = "done"])
  /\ UNCHANGED <<csvVars, binVars, formVars, pageVars, backendVars, providerVars, AirQuality, backendInsights, backendMap>>

\* the user messages of a chat log
UserMessages(chat) == {i \in DOMAIN chat : chat[i].type = "user"}

\* sendMessage with  if (!newMessage) return  as its test: no trim
sendMessageUntrimmed(c) ==
  IF c.newMessage = <<>> THEN c
  ELSE [c EXCEPT !.aiChat = Append(@, [type |-> "user", message |-> c.newMessage]),
                 !.newMessage = <<>>, !.timers = @ + 1]

\* lines 148-166: sendMessage up to setTimeout; timers counts the callbacks not yet run
sendMessage(c) ==
  IF trim(c.newMessage) = <<>> THEN c
  ELSE [c EXCEPT !.aiChat = Append(@, [type |-> "user", message |-> c.newMessage]),
                 !.newMessage = <<>>, !.timers = @ + 1]

\* line 374: onChange={(e) => setNewMessage(e.target.value)}
AIInsightsType ==
  /\ AIInsights.rendered = "page"
  /\ \E d \in Drafts :
       /\ d # AIInsights.newMessage
       /\ AIInsights' = [AIInsights EXCEPT !.newMessage = d]
  /\ UNCHANGED <<csvVars, binVars, formVars, pageVars, backendVars, providerVars, AirQuality, backendInsights, backendMap>>

\* lines 375 and 380: Enter in the input, or the Send button
AIInsightsSendMessage ==
  /\ AIInsights.rendered = "page"
  /\ Cardinality(UserMessages(AIInsights.aiChat)) < Cardinality(UserMessages(InitialChat)) + MaxSends
  /\ AIInsights' = sendMessage(AIInsights)
  /\ UNCHANGED <<csvVars, binVars, formVars, pageVars, backendVars, providerVars, AirQuality, backendInsights, backendMap>>

\* lines 155-165: a setTimeout callback runs and appends one of the four responses
AIInsightsReply ==
  /\ AIInsights.rendered = "page"
  /\ AIInsights.timers > 0
  /\ \E r \in Responses :
       AIInsights' = [AIInsights EXCEPT !.aiChat = Append(@, [type |-> "ai", message |-> r]),
                                        !.timers = @ - 1]
  /\ UNCHANGED <<csvVars, binVars, formVars, pageVars, backendVars, providerVars, AirQuality, backendInsights, backendMap>>

(***************************************************************************)
(* The AIInsights page with its chat                                       *)
(***************************************************************************)
InitChat ==
  /\ csv = ExampleCSV
  /\ InitMap
  /\ route = "/ai-insights"
  /\ InitPages
  /\ InitBackend
  /\ InitProvider
  /\ InitInsightsBackend

NextChat ==
  \/ AIInsightsEffect \/ AIInsightsFetchRejects \/ AIInsightsFetchResolves
  \/ AIInsightsJsonSettles
  \/ AIInsightsType \/ AIInsightsSendMessage \/ AIInsightsReply

SpecChat == InitChat /\ [][NextChat]_vars

(***************************************************************************)
(* AirQuality.tsx : fetchStations and the render that follows it           *)
(***************************************************************************)
AirQualityDrawn(c) == [c EXCEPT !.rendered = AirQualityRender(c.loading, c.stations)]

\* lines 84-98: catch sets the demo stations; setLoading(false)
AirQualityCatch(c) ==
  AirQualityDrawn([c EXCEPT !.stations = DemoStations, !.averageAQI = JNum(165),
                            !.selectedStation = DemoStations.l[1],
                            !.healthRecommendations = getHealthRecommendations(JNum(165), 1),
                            !.loading = FALSE, !.pc = "done"])

\* lines 76-83 and 98: the try block once the body is parsed
AirQualityTry(c, data) ==
  LET s == StationsOf(data) IN
  IF s.threw THEN AirQualityCatch(c)
  ELSE IF ~HasLength(s.v)
  THEN AirQualityDrawn([c EXCEPT !.stations = s.v, !.loading = FALSE, !.pc = "done"])
  ELSE IF s.v.t # "array" THEN AirQualityCatch(c)
  ELSE IF \E i \in 1..Len(s.v.l) : Get(s.v.l[i], "aqi").threw THEN AirQualityCatch(c)
  ELSE LET sum == SumAqi(s.v.l, 1) IN
       AirQualityDrawn([c EXCEPT !.stations = s.v,
                                 !.averageAQI = RoundedAverage(sum, Len(s.v.l)),
                                 !.selectedStation = s.v.l[1],
                                 !.healthRecommendations = getHealthRecommendations(sum, Len(s.v.l)),
                                 !.loading = FALSE, !.pc = "done"])

\* lines 70-74 and 101: the effect calls fetchStations, which runs to its first await
AirQualityEffect ==
  /\ route = "/air-quality"
  /\ AirQuality.pc = "mounted"
  /\ AirQuality' = AirQualityDrawn([AirQuality EXCEPT !.loading = TRUE, !.pc = "awaitFetch"])
  /\ UNCHANGED <<csvVars, binVars, formVars, pageVars, backendVars, providerVars, AIInsights, backendInsights, backendMap>>

\* line 74: fetch rejects
AirQualityPageFetchRejects ==
  /\ AirQuality.pc = "awaitFetch"
  /\ AirQuality' = AirQualityCatch(AirQuality)
  /\ UNCHANGED <<csvVars, binVars, formVars, pageVars, backendVars, providerVars, AIInsights, backendInsights, backendMap>>

\* line 74: the response arrives, any status
AirQualityPageFetchResolves ==
  /\ AirQuality.pc = "awaitFetch"
  /\ AirQuality' = [AirQuality EXCEPT !.pc = "awaitJson"]
  /\ UNCHANGED <<csvVars, binVars, formVars, pageVars, backendVars, providerVars, AIInsights, backendInsights, backendMap>>

\* lines 75-98: res.json() settles
AirQualityPageJsonSettles ==
  /\ AirQuality.pc = "awaitJson"
  /\ AirQuality' =
       IF backendMap = Malformed THEN AirQualityCatch(AirQuality)
       ELSE AirQualityTry(AirQuality, backendMap)
  /\ UNCHANGED <<csvVars, binVars, formVars, pageVars, backendVars, providerVars, AIInsights, backendInsights, backendMap>>

(***************************************************************************)
(* WasteManagement.tsx and part_005 : fetchBins of the page's effect       *)
(* (fetchRouteSummary is a chain of its own that sets routeSummary only)   *)
(***************************************************************************)
\* WasteManagement.tsx lines 56-76: the catch block stores the demo bins, their first as
\* the selection and their count of bins to collect, then line 77 clears loading;
\* part_005 lines 97-100: setBins([]), setLoading(false)
WasteManagementCatch(c) ==
  IF c.variant = "page"
  THEN [c EXCEPT !.bins = DemoBins, !.selectedBin = DemoBins.l[1], !.needingCollection = 3,
                 !.loading = FALSE, !.pc = "done"]
  ELSE [c EXCEPT !.bins = JArr(<<>>), !.loading = FALSE, !.pc = "done"]

\* a WasteManagement whose fetchBins leaves loading set when the body holds no bin
WasteManagementTryKeepsLoading(c, data) ==
  LET b == WasteBinsOf(data) IN
  IF b.threw THEN WasteManagementCatch(c)
  ELSE [c EXCEPT !.bins = b.v, !.pc = "done",
                 !.loading = ~HasLength(b.v),
                 !.selectedBin = IF HasLength(b.v) THEN FirstOf(b.v) ELSE c.selectedBin]

\* WasteManagement.tsx lines 50-55 and 77, part_005 lines 96 and 100: the try block once
\* the body is parsed
WasteManagementTry(c, data) ==
  LET b == IF c.variant = "page" THEN WasteBinsOf(data) ELSE WasteBinsOfEarlier(data) IN
  IF b.threw THEN WasteManagementCatch(c)
  ELSE IF c.variant = "page" /\ HasLength(b.v)
  THEN [c EXCEPT !.bins = b.v, !.selectedBin = FirstOf(b.v), !.loading = FALSE, !.pc = "done"]
  ELSE [c EXCEPT !.bins = b.v, !.loading = FALSE, !.pc = "done"]

\* the effect calls fetchBins, which runs to its first await
WasteManagementEffect ==
  /\ route = "/waste-management"
  /\ WasteManagement.pc = "mounted"
  /\ WasteManagement' = [WasteManagement EXCEPT !.loading = TRUE, !.pc = "awaitFetch"]
  /\ UNCHANGED <<csvVars, formVars, insightVars, pageVars, backendVars, providerVars>>

\* fetch rejects
WasteManagementFetchRejects ==
  /\ WasteManagement.pc = "awaitFetch"
  /\ WasteManagement' = WasteManagementCatch(WasteManagement)
  /\ UNCHANGED <<csvVars, formVars, insightVars, pageVars, backendVars, providerVars>>

\* the response arrives, any status
WasteManagementFetchResolves ==
  /\ WasteManagement.pc = "awaitFetch"
  /\ WasteManagement' = [WasteManagement EXCEPT !.pc = "awaitJson"]
  /\ UNCHANGED <<csvVars, formVars, insightVars, pageVars, backendVars, providerVars>>

\* res.json() settles
WasteManagementJsonSettles ==
  /\ WasteManagement.pc = "awaitJson"
  /\ WasteManagement' =
       IF backendMap = Malformed THEN WasteManagementCatch(WasteManagement)
       ELSE WasteManagementTry(WasteManagement, backendMap)
  /\ UNCHANGED <<csvVars, formVars, insightVars, pageVars, backendVars, providerVars>>

(***************************************************************************)
(* Every component that keeps a loading flag, on the route that shows it   *)
(***************************************************************************)
LoadingRoutes == ChartRoutes \cup {"/ai-insights"} \cup FormHosts

InitLoading ==
  /\ csv = ExampleCSV
  /\ InitMap
  /\ route \in LoadingRoutes
  /\ WasteChart = InitChart
  /\ AQIChart = InitChart
  /\ Alerts = InitAlerts
  /\ Dashboard = InitDashboard
  /\ AIInsights = InitAIInsights
  /\ AirQuality = InitAirQuality
  /\ AQIPrediction = InitForm
  /\ WastePrediction = InitForm
  /\ WasteManagement \in {InitWasteManagement(v) :
                            v \in IF route = "/waste-management" THEN {"page", "earlier"}
                                                                ELSE {"page"}}
  /\ backendAqi = 0
  /\ backendTrends \in (IF route \in {"/waste-management", "/air-quality"}
                        THEN {Malformed, GoodBody("trends", 0)} ELSE {GoodBody("trends", 0)})
  /\ backendAlerts \in (IF route = "/alerts" THEN AlertsBodies \cup BinAlertsBodies
                                              ELSE {GoodBody("alerts_summary", 0)})
  /\ backendInsights \in (IF route = "/ai-insights" THEN InsightsBodies ELSE {GoodInsights})
  /\ backendMap \in (CASE route = "/air-quality" -> MapBodies
                        [] route = "/waste-management" -> BinMapBodies
                        [] OTHER -> {GoodMap})
  /\ InitProvider

NextLoading ==
  \/ WasteChartEffect \/ WasteChartFetchRejects \/ WasteChartFetchResolves \/ WasteChartJsonSettles
  \/ AQIChartEffect \/ AQIChartFetchRejects \/ AQIChartFetchResolves \/ AQIChartJsonSettles
  \/ AlertsEffect \/ AlertsFetchRejects \/ AlertsFetchResolves \/ AlertsJsonSettles
  \/ AIInsightsEffect \/ AIInsightsFetchRejects \/ AIInsightsFetchResolves
  \/ AIInsightsJsonSettles
  \/ AirQualityEffect \/ AirQualityPageFetchRejects \/ AirQualityPageFetchResolves
  \/ AirQualityPageJsonSettles
  \/ WasteManagementEffect \/ WasteManagementFetchRejects \/ WasteManagementFetchResolves
  \/ WasteManagementJsonSettles
  \/ AQIPredictionSubmit \/ AQIPredictionFetchRejects \/ AQIPredictionFetchResolves
  \/ AQIPredictionJsonSettles
  \/ WastePredictionSubmit \/ WastePredictionFetchRejects \/ WastePredictionFetchResolves
  \/ WastePredictionJsonSettles

SpecLoading == InitLoading /\ [][NextLoading]_vars

(***************************************************************************)
(* The pages that draw what a fetch returned: /ai-insights, /air-quality   *)
(***************************************************************************)
InitInsights ==
  /\ csv = ExampleCSV
  /\ InitMap
  /\ route \in {"/ai-insights", "/air-quality"}
  /\ InitPages
  /\ InitBackend
  /\ InitProvider
  /\ backendInsights \in (IF route = "/ai-insights" THEN InsightsBodies ELSE {GoodInsights})
  /\ backendMap \in (IF route = "/air-quality" THEN MapBodies \cup BandMapBodies ELSE {GoodMap})

NextInsights ==
  \/ AIInsightsEffect \/ AIInsightsFetchRejects \/ AIInsightsFetchResolves
  \/ AIInsightsJsonSettles
  \/ AirQualityEffect \/ AirQualityPageFetchRejects \/ AirQualityPageFetchResolves
  \/ AirQualityPageJsonSettles

SpecInsights == InitInsights /\ [][NextInsights]_vars

(***************************************************************************)
(* DataProvider with its timer, and the list fetcher of the page shown     *)
(***************************************************************************)
\* both series of a trends body, or both lists of an alerts body, holding the same list
SameLists(parent, k1, k2) == {Wrap(parent, Obj2(k1, l, k2, l)) : l \in SeriesLists}

InitRetry ==
  /\ csv = ExampleCSV
  /\ InitMap
  /\ route \in ChartRoutes
  /\ InitPages
  /\ backendAqi = 0
  /\ backendTrends \in
       (IF route = "/alerts" THEN {GoodBody("trends", 0)}
        ELSE {Malformed} \cup SameLists("trends", "waste_collection", "air_quality"))
  /\ backendAlerts \in
       (IF route = "/alerts"
        THEN {Malformed} \cup SameLists("alerts_summary", "air_quality_alerts", "waste_collection_alerts")
        ELSE {GoodBody("alerts_summary", 0)})
  /\ InitProvider
  /\ InitInsightsBackend

NextRetry ==
  \/ ProviderEffect \/ Tick
  \/ DashFetchRejects \/ DashFetchResolves \/ DashJsonSettles
  \/ WasteChartEffect \/ WasteChartFetchRejects \/ WasteChartFetchResolves \/ WasteChartJsonSettles
  \/ AQIChartEffect \/ AQIChartFetchRejects \/ AQIChartFetchResolves \/ AQIChartJsonSettles
  \/ AlertsEffect \/ AlertsFetchRejects \/ AlertsFetchResolves \/ AlertsJsonSettles

SpecRetry == InitRetry /\ [][NextRetry]_vars

(***************************************************************************)
(* DataProvider alone: its three fetch functions running side by side      *)
(***************************************************************************)
\* consumers call fetchAirQualityData and fetchWasteData while the call of the mount runs
InitFrame ==
  /\ csv = ExampleCSV
  /\ InitMap
  /\ route = "/"
  /\ InitPages
  /\ InitBackend
  /\ InitProviderState
  /\ contextCalls = 1 + MaxContextCalls
  /\ InitInsightsBackend

NextFrame ==
  \/ ProviderEffect
  \/ CallFetchAirQualityData \/ AirQualityFetchRejects \/ AirQualityFetchResolves
  \/ AirQualityJsonSettles
  \/ CallFetchWasteData \/ WasteFetchRejects \/ WasteFetchResolves \/ WasteJsonSettles
  \/ DashFetchRejects \/ DashFetchResolves \/ DashJsonSettles

SpecFrame == InitFrame /\ [][NextFrame]_vars

(***************************************************************************)
(* Properties of the CSV parser (checked under SpecCSV)                    *)
(***************************************************************************)
ParserRan == mapPC \in {"loaded", "threw"}

HeaderLine(text) == split(text, NL)[1]

DataRows(text) == Tail(split(text, NL))

\* C1: on the text  Landfill Name,Landfill Location (Lat, Long) / Site A,"28.61,77.20"
\* parseWasteBinsCSV returns exactly [{name: "Site A", lat: 28.61, lng: 77.20}] and does not throw
C1_ExampleParsed ==
  (ParserRan /\ csv = ExampleCSV) =>
    parsed = Returned(<<[name |-> <<"Site A">>, lat |-> 2861, lng |-> 7720]>>)

\* C2: for every text with the expected header the output holds one entry per well-formed
\* data row, with that row's name and coordinates, and nothing for a row whose latitude or
\* longitude is not a number
C2_RowsFiltered ==
  (ParserRan /\ HeaderLine(csv) = ExpectedHeader) =>
    (~parsed.threw /\ parsed.bins = ExpectedBins(DataRows(csv)))

\* C3: a data row too short to hold the location column, the empty line after a final
\* newline included, is skipped: for every text the parser returns a list and never throws
C3_NeverThrows ==
  ParserRan => (mapPC = "loaded" /\ ~parsed.threw)

(***************************************************************************)
(* Properties of the list fetchers (checked under SpecCharts)              *)
(***************************************************************************)
IsSequence(v) == v.t = "array"

\* the body lacks the series key, or the object that should hold it
LacksKey(body, parent, key) ==
  body # Malformed /\ body # NoBody /\
  (Get(body, parent).threw \/ Get(Get(body, parent).v, key).threw
     \/ Get(Get(body, parent).v, key).v = JUndefined)

\* C4: in WasteChart, AQIChart and Alerts the list held in state is a sequence in every
\* reachable state, whatever the body of the response; it is the empty sequence when the
\* body lacks the series key or its parent object
C4_ListsAreSequences ==
  /\ IsSequence(WasteChart.data) /\ IsSequence(AQIChart.data)
  /\ IsSequence(Alerts.airQualityAlerts) /\ IsSequence(Alerts.wasteAlerts)
  /\ (WasteChart.pc = "done" /\ LacksKey(WasteChart.res.body, "trends", "waste_collection"))
       => WasteChart.data = JArr(<<>>)
  /\ (AQIChart.pc = "done" /\ LacksKey(AQIChart.res.body, "trends", "air_quality"))
       => AQIChart.data = JArr(<<>>)
  /\ (Alerts.pc = "done" /\ LacksKey(Alerts.res.body, "alerts_summary", "air_quality_alerts"))
       => Alerts.airQualityAlerts = JArr(<<>>)
  /\ (Alerts.pc = "done" /\ LacksKey(Alerts.res.body, "alerts_summary", "waste_collection_alerts"))
       => Alerts.wasteAlerts = JArr(<<>>)

\* C8: when the waste-trend fetch of WasteChart is answered {trends: {}} the component ends
\* with data = [], error = null and loading = false: the chart with no bars, no error shown
C8_EmptyTrendsRendersEmpty ==
  (WasteChart.pc = "done" /\ WasteChart.res.body = Wrap("trends", EmptyObj)) =>
    (WasteChart.data = JArr(<<>>) /\ WasteChart.error = Null /\ WasteChart.loading = FALSE)

C8_Witness ==
  /\ WasteChart.pc = "done"
  /\ WasteChart.res.body = Wrap("trends", EmptyObj)
  /\ WasteChart.res.ok

\* C10: in WasteChart and AQIChart a non-2xx response ends with the fixed error string set
\* or with the empty list: its body is never stored as chart data
C10_NonOkBodyNotStored ==
  /\ (WasteChart.pc = "done" /\ WasteChart.res.body # NoBody /\ ~WasteChart.res.ok)
       => (WasteChart.error = WasteChartError \/ WasteChart.data = JArr(<<>>))
  /\ (AQIChart.pc = "done" /\ AQIChart.res.body # NoBody /\ ~AQIChart.res.ok)
       => (AQIChart.error = AQIChartError \/ AQIChart.data = JArr(<<>>))

(***************************************************************************)
(* Properties of the polling DataProvider (checked under SpecPolling)      *)
(***************************************************************************)
\* C5: once DataProvider has unmounted no state setter of it is called any more, not even
\* by a fetchDashboardData call that was in flight when it unmounted
C5_NoUpdateAfterUnmount ==
  lateUpdates = 0

\* C6: when overlapping fetchDashboardData calls run to their end out of order, the
\* dashboardData held is the data of the call that ended last with data, whichever was
\* issued first
C6_LastResolvedWins ==
  (Alive /\ lastBuilt.id # 0 /\ ~lastBuilt.r.threw) => dashboardData = lastBuilt.r.v

\* the call issued first ended, with data, after the call issued second
C6_Witness ==
  /\ Alive
  /\ Len(dashCalls) >= 2
  /\ \A i \in 1..Len(dashCalls) : dashCalls[i].pc = "done"
  /\ lastBuilt.id = 1
  /\ ~lastBuilt.r.threw
  /\ dashboardData = lastBuilt.r.v

\* data.overview.current_aqi of a dashboardData
AqiOf(data) == Get(Get(data, "overview").v, "current_aqi").v

\* C7: while the application stays mounted, the AQI card of the Dashboard page, filled from
\* the backend by the page's own fetch, shows the backend's value once a poll tick has
\* fetched it
C7_PageRefreshedOnTick ==
  (/\ Alive
   /\ Dashboard.pc = "done"
   /\ Dashboard.metrics[0].value.t = "number"
   /\ lastBuilt.id # 0
   /\ ~lastBuilt.r.threw
   /\ dashCalls[lastBuilt.id].by = "tick"
   /\ backendAqi # 0
   /\ AqiOf(lastBuilt.r.v) = JNum(backendAqi))
  => Dashboard.metrics[0].value = JNum(backendAqi)

C11_NothingFatal ==
  /\ AIInsights.rendered # "threw"
  /\ AirQuality.rendered # "threw"

(***************************************************************************)
(* Properties of the timer of DataProvider (checked under SpecPolling)     *)
(***************************************************************************)
\* C12: once DataProvider has unmounted its interval timer is cleared, and no step taken
\* after the unmount issues a new fetchDashboardData call
C12_TimerClearedAtUnmount ==
  [][(provider' = "unmounted") => (~interval' /\ Len(dashCalls') = Len(dashCalls))]_vars

\* unmounted with the timer cleared while a tick would still have been followed
C12_Witness ==
  /\ provider = "unmounted"
  /\ ~interval
  /\ Len(dashCalls) = 1
  /\ Len(dashCalls) < 1 + MaxTicks

\* C13: while DataProvider is mounted the call of the mount was issued, the timer is
\* registered, and a tick can always issue its fetch: neither a failure nor an earlier call
\* still pending stops it
C13_TickAlwaysFetches ==
  Alive =>
    /\ interval
    /\ Len(dashCalls) >= 1
    /\ dashCalls[1].by = "effect"
    /\ \A i \in 2..Len(dashCalls) : dashCalls[i].by = "tick"
    /\ (Len(dashCalls) < 1 + MaxTicks) => ENABLED Tick

\* a tick issued its fetch while the call of the mount was still pending
C13_Witness ==
  /\ Alive
  /\ Len(dashCalls) = 2
  /\ dashCalls[1].pc # "done"
  /\ dashCalls[2].by = "tick"
  /\ dashCalls[2].pc = "awaitFetch"

(***************************************************************************)
(* Properties of requests (checked under SpecRetry and SpecFetchers)       *)
(***************************************************************************)
\* C14: a failed fetch is never retried on its own: a chart issues its GET from the mount
\* only, once, and a new fetchDashboardData call is issued by the mount or by a timer tick,
\* never by the step in which a call ends
C14_NoRetry ==
  [][/\ (Len(dashCalls') > Len(dashCalls)) =>
          /\ SubSeq(dashCalls', 1, Len(dashCalls)) = dashCalls
          /\ dashCalls'[Len(dashCalls')].by \in {"effect", "tick"}
     /\ (WasteChart'.pc = "awaitFetch") => (WasteChart.pc \in {"mounted", "awaitFetch"})
     /\ (WasteChart'.pc = "mounted") => (WasteChart.pc = "mounted")
     /\ (AQIChart'.pc = "awaitFetch") => (AQIChart.pc \in {"mounted", "awaitFetch"})
     /\ (AQIChart'.pc = "mounted") => (AQIChart.pc = "mounted")]_vars

\* the chart's GET and the call of the mount have both failed, and nothing was issued again
C14_Witness ==
  /\ WasteChart.pc = "done"
  /\ WasteChart.error = WasteChartError
  /\ Alive
  /\ Len(dashCalls) = 1
  /\ dashCalls[1].pc = "done"
  /\ errorDashboard # Null

\* C15: in the step in which a fetcher that keeps loading and error issues its request
\* (a fetch function of DataProvider, a chart, a prediction form), loading becomes or
\* stays true and error is null
C15_LoadingAtIssue ==
  [][/\ (Len(dashCalls') > Len(dashCalls)) => (loadingDashboard' = TRUE /\ errorDashboard' = Null)
     /\ (Len(aqCalls') > Len(aqCalls)) => (loadingAirQuality' = TRUE /\ errorAirQuality' = Null)
     /\ (Len(wasteCalls') > Len(wasteCalls)) => (loadingWaste' = TRUE /\ errorWaste' = Null)
     /\ (WasteChart.pc = "mounted" /\ WasteChart'.pc = "awaitFetch")
          => (WasteChart'.loading /\ WasteChart'.error = Null)
     /\ (AQIChart.pc = "mounted" /\ AQIChart'.pc = "awaitFetch")
          => (AQIChart'.loading /\ AQIChart'.error = Null)
     /\ (AQIPrediction'.submits > AQIPrediction.submits)
          => (AQIPrediction'.loading /\ AQIPrediction'.error = Null)
     /\ (WastePrediction'.submits > WastePrediction.submits)
          => (WastePrediction'.loading /\ WastePrediction'.error = Null)]_vars

\* a form was submitted a second time, and a dashboard call was issued after the first
\* had failed: both requests are out with loading true and the earlier error cleared
C15_Witness ==
  /\ AQIPrediction.submits = 2
  /\ AQIPrediction.pc = "awaitFetch"
  /\ AQIPrediction.loading
  /\ AQIPrediction.error = Null
  /\ Len(dashCalls) = 2
  /\ dashCalls[1].pc = "done"
  /\ dashCalls[2].pc = "awaitFetch"
  /\ lastBuilt.id = 1
  /\ lastBuilt.r.threw
  /\ loadingDashboard
  /\ errorDashboard = Null

(***************************************************************************)
(* Properties of the view-models held (checked under SpecRetry)            *)
(***************************************************************************)
\* what a body holds at <parent>.<key>, undefined when it cannot be read
SeriesIn(body, parent, key) == Get(Get(body, parent).v, key).v

\* C16: after a fetch that succeeded the view-model held is what that response carried:
\* a list fetcher holds the list of the body, same elements, same order, duplicates kept;
\* dashboardData holds the four fields of the bodies of the poll that built it and
\* nothing of an earlier poll
C16_SnapshotReplaced ==
  /\ (WasteChart.pc = "done" /\ WasteChart.error = Null
        /\ IsSequence(SeriesIn(WasteChart.res.body, "trends", "waste_collection")))
       => WasteChart.data = SeriesIn(WasteChart.res.body, "trends", "waste_collection")
  /\ (AQIChart.pc = "done" /\ AQIChart.error = Null
        /\ IsSequence(SeriesIn(AQIChart.res.body, "trends", "air_quality")))
       => AQIChart.data = SeriesIn(AQIChart.res.body, "trends", "air_quality")
  /\ (Alerts.pc = "done"
        /\ IsSequence(SeriesIn(Alerts.res.body, "alerts_summary", "air_quality_alerts"))
        /\ IsSequence(SeriesIn(Alerts.res.body, "alerts_summary", "waste_collection_alerts")))
       => /\ Alerts.airQualityAlerts = SeriesIn(Alerts.res.body, "alerts_summary", "air_quality_alerts")
          /\ Alerts.wasteAlerts = SeriesIn(Alerts.res.body, "alerts_summary", "waste_collection_alerts")
  /\ (Alive /\ lastBuilt.id # 0 /\ ~lastBuilt.r.threw)
       => /\ dashboardData.t = "object"
          /\ DOMAIN dashboardData.o = Endpoints
          /\ \A e \in Endpoints : dashboardData.o[e] = Get(lastBodies[e], e).v

\* a chart holds a list with a repeated reading, and the poll that ended last, the second
\* of two, carried no overview: none is held
C16_Witness ==
  /\ WasteChart.pc = "done"
  /\ WasteChart.data = JArr(<<JNum(1), JNum(1)>>)
  /\ Alive
  /\ Len(dashCalls) = 2
  /\ \A i \in 1..2 : dashCalls[i].pc = "done"
  /\ lastBuilt.id = 2
  /\ ~lastBuilt.r.threw
  /\ lastBodies["overview"] = EmptyObj
  /\ dashboardData.o["overview"] = JUndefined

\* C17: after a fetchDashboardData call that ended without an error, each of overview,
\* city_health, trends and alerts_summary of dashboardData is defined, whatever JSON
\* the four 2xx responses carried: a key missing from a body is defaulted
C17_FieldsDefined ==
  (Alive /\ lastBuilt.id # 0 /\ ~lastBuilt.r.threw) =>
    /\ dashboardData.t = "object"
    /\ \A e \in Endpoints : e \in DOMAIN dashboardData.o /\ dashboardData.o[e] # JUndefined

(***************************************************************************)
(* Properties of the three fetch functions side by side (checked under     *)
(* SpecFrame)                                                              *)
(***************************************************************************)
\* C18: each of fetchAirQualityData, fetchWasteData and fetchDashboardData changes only
\* its own data, loading and error: whatever the other two are doing, a step of one of
\* them leaves the data, loading and error of the other two as they were
C18_OwnStateOnly ==
  [][/\ (aqCalls' # aqCalls) =>
          UNCHANGED <<wasteData, loadingWaste, errorWaste,
                      dashboardData, loadingDashboard, errorDashboard>>
     /\ (wasteCalls' # wasteCalls) =>
          UNCHANGED <<airQualityData, loadingAirQuality, errorAirQuality,
                      dashboardData, loadingDashboard, errorDashboard>>
     /\ (dashCalls' # dashCalls) =>
          UNCHANGED <<airQualityData, loadingAirQuality, errorAirQuality,
                      wasteData, loadingWaste, errorWaste>>]_vars

\* the three have run side by side: two ended, the third is still loading, and each
\* holds its own outcome
C18_Witness ==
  /\ Len(aqCalls) = 1 /\ aqCalls[1] = "done" /\ errorAirQuality = AirQualityNotOk
  /\ Len(wasteCalls) = 1 /\ wasteCalls[1] = "done" /\ wasteData # JNull /\ errorWaste = Null
  /\ Len(dashCalls) = 1 /\ dashCalls[1].pc = "awaitJson" /\ loadingDashboard
  /\ ~loadingAirQuality /\ ~loadingWaste

C20_QuotedCellCut ==
  ParserRan =>
    \A k \in DOMAIN DataRows(csv) :
      LET row == DataRows(csv)[k] IN
      IsWellFormedRow(row) =>
        /\ split(row, COMMA) = <<<<row[1]>>, <<QUOTE, row[4]>>, <<row[6], QUOTE>>>>
        /\ \/ parsed.threw
           \/ \A n \in DOMAIN parsed.bins :
                ~(parsed.bins[n].lat = NumVal[row[4]] /\ parsed.bins[n].lng = NumVal[row[6]])

\* the parser has run on a text that holds a row  name,"lat,lng"
C20_Witness ==
  /\ ParserRan
  /\ \E k \in DOMAIN DataRows(csv) : IsWellFormedRow(DataRows(csv)[k])
  /\ \/ parsed.threw
     \/ parsed.bins = <<>>

(***************************************************************************)
(* Properties of overlapping fetchDashboardData calls (SpecPolling)        *)
(***************************************************************************)
InFlight(i) == dashCalls[i].pc # "done"

\* C21: while DataProvider is mounted, loadingDashboard is true in every state in which
\* at least one fetchDashboardData call is still in flight, overlapping calls included
C21_LoadingWhileInFlight ==
  (Alive /\ \E i \in 1..Len(dashCalls) : InFlight(i)) => loadingDashboard = TRUE

\* C22: whenever no fetchDashboardData call is in flight and the call issued last has
\* succeeded, errorDashboard is null: no error of an older, overlapping call stays next
\* to the newer data
C22_NoStaleError ==
  (/\ Alive
   /\ \A i \in 1..Len(dashCalls) : ~InFlight(i)
   /\ latestOutcome = "ok")
  => errorDashboard = Null

\* a step in which call i, waiting for its four responses, fails on a rejection or on a
\* non-ok response
FailsOnResponse(i) ==
  /\ i \in 1..Len(dashCalls)
  /\ dashCalls[i].pc = "awaitFetch"
  /\ dashCalls'[i].pc = "done"

Settled(c) == c.pc = "done"

\* the fetch of a page or chart waits for the network or for the body
Awaiting(c) == c.pc \in {"awaitFetch", "awaitJson"}

\* C24: in WasteChart, AQIChart, Alerts, AirQuality, WasteManagement, AIInsights and both
\* prediction forms, a fetch that has settled, whatever the response or the rejection,
\* has left loading false; loading is true only while the fetch has not settled, and from
\* every waiting state the step that settles it can be taken
C24_LoadingEnds ==
  /\ \A c \in {WasteChart, AQIChart, Alerts, AirQuality, WasteManagement, AIInsights} :
       /\ Settled(c) => c.loading = FALSE
       /\ Awaiting(c) => c.loading = TRUE
  /\ \A f \in {AQIPrediction, WastePrediction} :
       /\ f.pc = "idle" => f.loading = FALSE
       /\ Awaiting(f) => f.loading = TRUE
  /\ WasteChart.pc = "awaitJson" => ENABLED WasteChartJsonSettles
  /\ AQIChart.pc = "awaitJson" => ENABLED AQIChartJsonSettles
  /\ Alerts.pc = "awaitJson" => ENABLED AlertsJsonSettles
  /\ AirQuality.pc = "awaitJson" => ENABLED AirQualityPageJsonSettles
  /\ WasteManagement.pc = "awaitJson" => ENABLED WasteManagementJsonSettles
  /\ AIInsights.pc = "awaitJson" => ENABLED AIInsightsJsonSettles
  /\ AQIPrediction.pc = "awaitJson" => ENABLED AQIPredictionJsonSettles
  /\ WastePrediction.pc = "awaitJson" => ENABLED WastePredictionJsonSettles

\* fetchBins has settled on a body that holds no map_data and the spinner is gone
C24_Witness ==
  /\ Settled(WasteManagement)
  /\ backendMap = EmptyObj
  /\ WasteManagement.loading = FALSE

\* prediction and error of a form are not both set, and neither is set while it loads
FormExclusive(f) ==
  /\ ~(f.prediction # JNull /\ f.error # Null)
  /\ f.loading => (f.prediction = JNull /\ f.error = Null)

\* the form's request ends on a rejection or on a non-ok response
FormFails(f, g) == f.pc = "awaitFetch" /\ g.pc = "idle"

\* C25: in AQIPrediction and WastePrediction, submitted only while loading is false, at
\* most one of prediction and error is non-null in every state and both are null while
\* loading is true; a rejection or a non-ok response sets error to 'Prediction failed'
\* and leaves prediction null
C25_PredictionOrError ==
  [][/\ FormExclusive(AQIPrediction) /\ FormExclusive(AQIPrediction')
     /\ FormExclusive(WastePrediction) /\ FormExclusive(WastePrediction')
     /\ FormFails(AQIPrediction, AQIPrediction')
          => (AQIPrediction'.error = PredictionFailed /\ AQIPrediction'.prediction = JNull)
     /\ FormFails(WastePrediction, WastePrediction')
          => (WastePrediction'.error = PredictionFailed /\ WastePrediction'.prediction = JNull)]_vars

\* a form submitted twice shows the failure of its second request and no prediction
C25_Witness ==
  /\ AQIPrediction.submits = 2
  /\ AQIPrediction.pc = "idle"
  /\ AQIPrediction.error = PredictionFailed
  /\ AQIPrediction.prediction = JNull

(***************************************************************************)
(* Properties of the Dashboard cards (checked under SpecPolling)           *)
(***************************************************************************)
\* C26: once the overview request of the Dashboard page has settled, with any JSON body
\* or with a rejection, none of the Current AQI, Bins Need Collection and Active Alerts
\* cards shows the placeholder '...'
C26_NoPlaceholderLeft ==
  Dashboard.pc = "done" => \A i \in 0..2 : Dashboard.metrics[i].value # JStr("...")

\* the body the overview request answered with holds an overview object
HasOverview(body) ==
  /\ body.t = "object"
  /\ Get(body, "overview").v.t = "object"

\* what a card is to show for a field: its number when the response carries one, the
\* demo value when the field is absent
CardFor(o, key, demo) ==
  IF Get(o, key).v.t = "number" THEN Get(o, key).v ELSE JStr(demo)

\* C27: after an overview fetch whose body has an overview object each of the three cards
\* shows the number the response carries for its field, 0 included, and the demo value
\* '168', '47' or '3' only when the field is absent
C27_CardsShowResponse ==
  (Dashboard.pc = "done" /\ HasOverview(Dashboard.body)) =>
    LET o == Get(Dashboard.body, "overview").v IN
    /\ Dashboard.metrics[0].value = CardFor(o, "current_aqi", "168")
    /\ Dashboard.metrics[1].value = CardFor(o, "bins_needing_collection", "47")
    /\ Dashboard.metrics[2].value = CardFor(o, "active_alerts", "3")

(***************************************************************************)
(* Properties of the AirQuality page's bands (checked under SpecInsights)  *)
(***************************************************************************)
\* the band, 1 to 4, of a status label: up to 50, up to 100, up to 150, above
StatusBand(status) ==
  CASE status = "Good" -> 1
    [] status = "Moderate" -> 2
    [] status = "Unhealthy for Sensitive" -> 3
    [] OTHER -> 4

\* the band, 1 to 4, of a list of health recommendations
RecommendationBand(recs) ==
  CASE recs = "excellent" -> 1
    [] recs = "acceptable" -> 2
    [] recs = "sensitive" -> 3
    [] OTHER -> 4

\* fetchStations has stored a list of the backend with at least one station, every
\* reading an integer
StationsStored ==
  /\ AirQuality.pc = "done"
  /\ AirQuality.stations.t = "array"
  /\ AirQuality.stations # DemoStations
  /\ Len(AirQuality.stations.l) > 0
  /\ \A i \in 1..Len(AirQuality.stations.l) :
       /\ AirQuality.stations.l[i].t = "object"
       /\ Get(AirQuality.stations.l[i], "aqi").v.t = "number"

\* C28: after a successful fetch with at least one station the health recommendations
\* shown are those of the band (up to 50, up to 100, up to 150, above 150) of the average
\* AQI displayed and of its status label
C28_SameBand ==
  StationsStored =>
    RecommendationBand(AirQuality.healthRecommendations)
      = StatusBand(getAQIStatus(AirQuality.averageAQI))

(***************************************************************************)
(* Properties of the views that show bins (checked under SpecLoading)      *)
(***************************************************************************)
\* a bin record whose fill_level is a fraction from 0 to 1
IsFractionBin(b) ==
  /\ b.t = "object"
  /\ Get(b, "fill_level").v.t = "number"
  /\ Get(b, "fill_level").v.n \in 0..100

\* fill_level x 100 rounded, in hundredths of a percent
FillPercent(b) == 100 * Get(b, "fill_level").v.n

\* C29: for a bin record whose fill_level is a fraction in 0..1 every view that shows it,
\* the Alerts page and both WasteManagement variants, displays fill_level x 100 rounded,
\* and WasteManagement derives the fill status of that percentage
C29_SamePercentage ==
  /\ (Settled(Alerts) /\ Alerts.wasteAlerts.t = "array") =>
       \A i \in 1..Len(Alerts.wasteAlerts.l) :
         IsFractionBin(Alerts.wasteAlerts.l[i]) =>
           AlertsFillShown(Alerts.wasteAlerts.l[i]) = FillPercent(Alerts.wasteAlerts.l[i])
  /\ (Settled(WasteManagement) /\ WasteManagement.bins.t = "array") =>
       \A i \in 1..Len(WasteManagement.bins.l) :
         LET b == WasteManagement.bins.l[i] IN
         IsFractionBin(b) =>
           IF WasteManagement.variant = "earlier"
           THEN WasteManagementEarlierFillShown(b) = FillPercent(b)
           ELSE /\ WasteManagementFillShown(b) = FillPercent(b)
                /\ WasteManagementStatusShown(b) = getFillStatus(FillPercent(b))

(***************************************************************************)
(* Properties of the AIInsights chat (checked under SpecChat)              *)
(***************************************************************************)
\* entries of a type appended to the chat since the page mounted
Appended(chat, type) ==
  Cardinality({i \in DOMAIN chat : chat[i].type = type})
    - Cardinality({i \in DOMAIN InitialChat : InitialChat[i].type = type})

\* C30: the chat log is append-only. No step alters, reorders or removes an entry, and a
\* step appends at most one. A user message is appended only by sendMessage on a draft
\* that is not empty or whitespace, as that draft, with the draft cleared in the same
\* step; a blank draft appends nothing. Each sent message gets exactly one AI reply,
\* appended by a later step: replies appended plus replies pending equal messages sent
C30_ChatAppendOnly ==
  [][LET old == AIInsights.aiChat
         new == AIInsights'.aiChat
     IN
     /\ Len(new) \in {Len(old), Len(old) + 1}
     /\ SubSeq(new, 1, Len(old)) = old
     /\ (Len(new) > Len(old) /\ new[Len(new)].type = "user") =>
          /\ trim(AIInsights.newMessage) # <<>>
          /\ new[Len(new)].message = AIInsights.newMessage
          /\ AIInsights'.newMessage = <<>>
          /\ AIInsights'.timers = AIInsights.timers + 1
     /\ (Len(new) > Len(old) /\ new[Len(new)].type = "ai") =>
          /\ AIInsights.timers > 0
          /\ AIInsights'.timers = AIInsights.timers - 1
          /\ AIInsights'.newMessage = AIInsights.newMessage
     /\ Len(new) = Len(old) => AIInsights'.timers = AIInsights.timers
     /\ Appended(new, "ai") + AIInsights'.timers = Appended(new, "user")]_vars

\* two messages were sent before either reply came, and both replies have come
C30_Witness ==
  /\ Len(AIInsights.aiChat) = Len(InitialChat) + 4
  /\ AIInsights.aiChat[Len(InitialChat) + 1].type = "user"
  /\ AIInsights.aiChat[Len(InitialChat) + 2].type = "user"
  /\ AIInsights.timers = 0

====================================================================
